---- MODULE Spec2Model ----
(***************************************************************************)
(* GBOxide: the CPU fetch/decode/execute engine, the memory bus (MMU), the *)
(* interrupt controller, the timer and the display controller's timing,    *)
(* as one state machine.  Sequential Rust code with side effects is        *)
(* translated to operators that thread a machine record `s` (the fields of *)
(* CPU and MMU) through the calls in program order.                        *)
(***************************************************************************)
EXTENDS Integers, Sequences, FiniteSets, TLC

VARIABLES
    r,                \* CPU.r: Registers (a, f, b, c, d, e, h, l, sp, pc)
    interrupt_state,  \* CPU.interrupt_state: "Disabled" | "Enabling" | "Enabled"
    halted,           \* CPU.halted
    ih,               \* MMU.interrupt: InterruptHandler [flag, enable]
    cycles,           \* MMU.cycles
    timer,            \* MMU.timer
    lcd,              \* MMU.lcd (registers and scanline timing)
    mem,              \* MMU.system_ram, MMU.high_ram, MMU.serial, LCD vram/oam
    cart,             \* MMU.cart: the no-banking ROM variant [rom, ram, ram_size]
    bus,              \* history: the bus operations of the last step, in order of completion
    timer_steps,      \* history: number of Timer::step calls so far
    lcd_steps,        \* history: number of LCD::step calls so far
    raised,           \* history: request bits newly set by peripherals during the last step
    drawn,            \* history: the scanlines LCD::draw_scanline drew during the last step
    result,           \* what the last CPU::step returned: Ok, Err(..) or a panic
    pre,              \* history: the machine as it was when the last step began
    start,            \* history: the machine as it was when the run began
                      \* (in SpecRun: when run_to_vblank was entered)
    hist,             \* history: what the last steps did, oldest first
    nsteps,           \* number of steps taken (bounded by MaxSteps)
    overflow_checks,  \* the build: whether plain integer arithmetic panics on overflow
    joypad            \* Joypad [buttons, directions, selection] (joypad.rs)

vars == <<r, interrupt_state, halted, ih, cycles, timer, lcd, mem, cart,
          bus, timer_steps, lcd_steps, raised, drawn, result, pre, start, hist,
          nsteps, overflow_checks, joypad>>

(***************************************************************************)
(* Bounds of the model                                                     *)
(***************************************************************************)
MaxSteps == 3
MaxSignals == 2
ALUSteps == 1
InstrSteps == 2
MaxTimerCycles == 16
MaxWrites == 1
\* machine cycles and register writes in one run of the display
MaxLCDCycles == 4
\* reads and writes of the cartridge in one run
MaxCartAccesses == 5
MaxMemAccesses == 3
MaxBootSteps == 4
MaxFrames == 1
MaxJoypadCalls == 3

\* steps of a CPU that starts halted
MaxHaltSteps == 12
HistLen == 3

(***************************************************************************)
(* u8 / u16 arithmetic                                                     *)
(***************************************************************************)
Byte == 0..255

RECURSIVE BitAnd(_, _)
BitAnd(x, y) ==
    IF x = 0 \/ y = 0 THEN 0
    ELSE (x % 2) * (y % 2) + 2 * BitAnd(x \div 2, y \div 2)

RECURSIVE BitOr(_, _)
BitOr(x, y) ==
    IF x = 0 THEN y
    ELSE IF y = 0 THEN x
    ELSE (IF x % 2 = 1 \/ y % 2 = 1 THEN 1 ELSE 0) + 2 * BitOr(x \div 2, y \div 2)

RECURSIVE BitXor(_, _)
BitXor(x, y) ==
    IF x = 0 THEN y
    ELSE IF y = 0 THEN x
    ELSE ((x + y) % 2) + 2 * BitXor(x \div 2, y \div 2)

Not8(x) == 255 - x

Bit(x, n) == (x \div (2 ^ n)) % 2

wrapping_add8(x, y) == (x + y) % 256
wrapping_sub8(x, y) == (x - y + 256) % 256
wrapping_add16(x, y) == (x + y) % 65536
wrapping_sub16(x, y) == (x - y + 65536) % 65536

RECURSIVE tz(_, _)
tz(x, n) == IF n = 8 \/ x % 2 = 1 THEN n ELSE tz(x \div 2, n + 1)

\* u8::trailing_zeros: the position of the lowest set bit, 8 for 0
trailing_zeros(x) == tz(x, 0)

\* arrays initialised to zero, kept as the finite map of their non-zero cells
EmptyMap == [k \in {} |-> 0]
Get(f, k) == IF k \in DOMAIN f THEN f[k] ELSE 0
Put(f, k, v) ==
    IF v = 0 THEN [x \in DOMAIN f \ {k} |-> f[x]]
    ELSE [x \in DOMAIN f \cup {k} |-> IF x = k THEN v ELSE f[x]]

(***************************************************************************)
(* interrupt.rs                                                            *)
(***************************************************************************)
VBlank == 0
LCDC == 1
Timer == 2
SerialIOComplete == 3
Joypad == 4
Interrupts == {VBlank, LCDC, Timer, SerialIOComplete, Joypad}

InterruptHandler_new == [flag |-> 0, enable |-> 0]

set_flag(h, value) == [h EXCEPT !.flag = value]
set_enable(h, value) == [h EXCEPT !.enable = value]

\* self.flag |= interrupt as u8: the enum's discriminant is or-ed in as it is
set_interrupt(h, interrupt) == [h EXCEPT !.flag = BitOr(@, interrupt)]

\* InterruptHandler::get_enabled_flags is called by cpu.rs and is not in
\* interrupt.rs: the requested bits that are also enabled
get_enabled_flags(h) == BitAnd(h.flag, h.enable)

(***************************************************************************)
(* joypad.rs                                                               *)
(***************************************************************************)
\* enum JoypadSelection
Buttons == 32
Directions == 16
Both == 48
Neither == 0

Joypad_new == [buttons |-> 0, directions |-> 0, selection |-> Neither]

\* `flag as u8`
AsU8(flag) == IF flag THEN 1 ELSE 0

\* Joypad::set_from_controls: the joypad and the interrupt handler afterwards
set_from_controls(j, controls, h) ==
    LET prev_buttons == j.buttons
        prev_directions == j.directions
        buttons == BitOr(BitOr(AsU8(controls.a), 2 * AsU8(controls.b)),
                         BitOr(4 * AsU8(controls.select), 8 * AsU8(controls.start)))
        directions == BitOr(BitOr(AsU8(controls.right), 2 * AsU8(controls.left)),
                            BitOr(4 * AsU8(controls.up), 8 * AsU8(controls.down)))
        new_pressed ==
            CASE j.selection = Buttons -> BitAnd(buttons, Not8(prev_buttons)) > 0
              [] j.selection = Directions -> BitAnd(directions, Not8(prev_directions)) > 0
              [] j.selection = Both ->
                    BitAnd(BitOr(buttons, directions),
                           Not8(BitOr(prev_buttons, prev_directions))) > 0
              [] j.selection = Neither -> FALSE
    IN  [joypad |-> [j EXCEPT !.buttons = buttons, !.directions = directions],
         ih |-> IF new_pressed THEN set_interrupt(h, Joypad) ELSE h]

\* Joypad::write_select_bits: !value & 0b0011_0000 is one of the four
\* discriminants of JoypadSelection
write_select_bits(j, value) == [j EXCEPT !.selection = BitAnd(Not8(value), 48)]

\* Joypad::as_u8 that shows both groups whatever is selected
as_u8_unselected(j) ==
    Not8(BitOr(j.selection, BitOr(j.buttons, j.directions)))

\* Joypad::as_u8
as_u8(j) ==
    Not8(BitOr(j.selection,
               CASE j.selection = Buttons -> j.buttons
                 [] j.selection = Directions -> j.directions
                 [] j.selection = Both -> BitOr(j.buttons, j.directions)
                 [] j.selection = Neither -> 0))

(***************************************************************************)
(* timer.rs                                                                *)
(***************************************************************************)
\* the ratios of select 01 and select 10 exchanged
ratio_exchanged(clock) ==
    CASE clock = 0 -> 1024
      [] clock = 1 -> 64
      [] clock = 2 -> 16
      [] clock = 3 -> 256

ratio(clock) ==
    CASE clock = 0 -> 1024
      [] clock = 1 -> 16
      [] clock = 2 -> 64
      [] clock = 3 -> 256

Timer_new == [divider |-> 0, counter |-> 0, tima |-> 0, modulo |-> 0,
              enabled |-> FALSE, clock |-> 0]

get_control(t) == t.clock + (IF t.enabled THEN 4 ELSE 0)

set_control(t, value) ==
    [t EXCEPT !.enabled = (Bit(value, 2) = 1), !.clock = value % 4]

Timer_read_register(t, addr) ==
    CASE addr = 65284 -> t.divider
      [] addr = 65285 -> t.tima
      [] addr = 65286 -> t.modulo
      [] addr = 65287 -> get_control(t)

\* Timer::write_register that stores the byte written to the divider
Timer_write_register_stored(t, addr, value) ==
    CASE addr = 65284 -> [t EXCEPT !.divider = value]
      [] addr = 65285 -> [t EXCEPT !.tima = value]
      [] addr = 65286 -> [t EXCEPT !.modulo = value]
      [] addr = 65287 -> set_control(t, value)

Timer_write_register(t, addr, value) ==
    CASE addr = 65284 -> [t EXCEPT !.divider = 0]
      [] addr = 65285 -> [t EXCEPT !.tima = value]
      [] addr = 65286 -> [t EXCEPT !.modulo = value]
      [] addr = 65287 -> set_control(t, value)

\* Timer::step(&mut self, ih): returns the timer and the interrupt handler
Timer_step(t, h) ==
    LET counted(t1, counter) ==
            IF counter >= ratio(t1.clock)
            THEN IF t1.tima = 255
                 THEN [timer |-> [t1 EXCEPT !.counter = counter - ratio(t1.clock),
                                            !.tima = t1.modulo],
                       ih |-> set_interrupt(h, Timer)]
                 ELSE [timer |-> [t1 EXCEPT !.counter = counter - ratio(t1.clock),
                                            !.tima = @ + 1],
                       ih |-> h]
            ELSE [timer |-> [t1 EXCEPT !.counter = counter], ih |-> h]
        given(t1) == IF ~t1.enabled THEN [timer |-> t1, ih |-> h]
                     ELSE counted(t1, t1.counter + 4)
    IN  given([t EXCEPT !.divider = wrapping_add8(@, 4)])

(***************************************************************************)
(* lcd.rs: registers and scanline timing (the pixel rendering of           *)
(* draw_scanline and the frame dump of vblank() write only the frame       *)
(* buffer and files, which are not part of this model)                     *)
(***************************************************************************)
SCANLINE_CYCLE_TOTAL == 456
\* an OAM search that lasts a machine cycle longer
MODE2_CYCLE_RANGE_late == SCANLINE_CYCLE_TOTAL - 84

MODE2_CYCLE_RANGE == SCANLINE_CYCLE_TOTAL - 80
MODE3_CYCLE_RANGE == MODE2_CYCLE_RANGE - 172
SCREEN_HEIGHT == 144
VBLANK_HEIGHT == 154

HBlank == 0
ModeVBlank == 1
OAMSearch == 2
Transfer == 3

LCD_new == [control |-> 0, status |-> 0, scroll_y |-> 0, scroll_x |-> 0,
            scanline_cycle_count |-> SCANLINE_CYCLE_TOTAL, lcd_y |-> 0,
            lcd_y_compare |-> 0, bg_palette |-> 0, sprite_palette_0 |-> 0,
            sprite_palette_1 |-> 0, window_y |-> 0, window_x |-> 0]

\* the enable test answering "on" whatever bit 7 is
control_enable_ignored(l) == TRUE

control_enable(l) == Bit(l.control, 7) = 1
mode_flag(l) == l.status % 4
\* LCD::vblank_reached: the display reports vertical blank
vblank_reached(l) == mode_flag(l) = ModeVBlank

set_mode_flag(l, mode) == [l EXCEPT !.status = (@ - (@ % 4)) + mode]
set_coincidence_flag(l, on) ==
    [l EXCEPT !.status = (@ - 4 * Bit(@, 2)) + (IF on THEN 4 ELSE 0)]

lcdc_interrupt(h) == set_interrupt(h, LCDC)

LCD_read_register(l, addr) ==
    CASE addr = 65344 -> l.control
      [] addr = 65345 -> l.status
      [] addr = 65346 -> l.scroll_y
      [] addr = 65347 -> l.scroll_x
      [] addr = 65348 -> l.lcd_y
      [] addr = 65349 -> l.lcd_y_compare
      [] addr = 65350 -> 255
      [] addr = 65351 -> l.bg_palette
      [] addr = 65352 -> l.sprite_palette_0
      [] addr = 65353 -> l.sprite_palette_1
      [] addr = 65354 -> l.window_y
      [] addr = 65355 -> l.window_x

LCD_write_register(l, addr, value) ==
    CASE addr = 65344 -> [l EXCEPT !.control = value]
      [] addr = 65345 -> [l EXCEPT !.status = value]
      [] addr = 65346 -> [l EXCEPT !.scroll_y = value]
      [] addr = 65347 -> [l EXCEPT !.scroll_x = value]
      [] addr = 65348 -> [l EXCEPT !.lcd_y = 0]
      [] addr = 65349 -> [l EXCEPT !.lcd_y_compare = value]
      [] addr = 65351 -> [l EXCEPT !.bg_palette = value]
      [] addr = 65352 -> [l EXCEPT !.sprite_palette_0 = value]
      [] addr = 65353 -> [l EXCEPT !.sprite_palette_1 = value]
      [] addr = 65354 -> [l EXCEPT !.window_y = value]
      [] addr = 65355 -> [l EXCEPT !.window_x = value]

\* LCD::set_status(&mut self, ih)
set_status(l, h) ==
    LET coincidence(l1, h1) ==
            IF l1.lcd_y = l1.lcd_y_compare
            THEN [lcd |-> set_coincidence_flag(l1, TRUE),
                  ih |-> IF Bit(l1.status, 6) = 1 THEN lcdc_interrupt(h1) ELSE h1]
            ELSE [lcd |-> set_coincidence_flag(l1, FALSE), ih |-> h1]
        \* hblank(ih), vblank(ih), the OAMSearch arm and the Transfer arm
        mode_changed(l1, mode) ==
            CASE mode = HBlank -> IF Bit(l1.status, 3) = 1 THEN lcdc_interrupt(h) ELSE h
              [] mode = ModeVBlank -> IF Bit(l1.status, 4) = 1 THEN lcdc_interrupt(h) ELSE h
              [] mode = OAMSearch -> IF Bit(l1.status, 5) = 1 THEN lcdc_interrupt(h) ELSE h
              [] mode = Transfer -> h
        with_mode(prev_mode, mode, l1) ==
            coincidence(l1, IF prev_mode = mode THEN h ELSE mode_changed(l1, mode))
        given(mode) == with_mode(mode_flag(l), mode, set_mode_flag(l, mode))
    IN  IF ~control_enable(l)
        THEN [lcd |-> set_mode_flag([l EXCEPT !.scanline_cycle_count = SCANLINE_CYCLE_TOTAL,
                                              !.lcd_y = 0], ModeVBlank),
              ih |-> h]
        ELSE given(IF l.lcd_y >= SCREEN_HEIGHT THEN ModeVBlank
                   ELSE IF l.scanline_cycle_count >= MODE2_CYCLE_RANGE THEN OAMSearch
                   ELSE IF l.scanline_cycle_count >= MODE3_CYCLE_RANGE THEN Transfer
                   ELSE HBlank)

\* LCD::step(&mut self, ih)
LCD_step(l, h) ==
    LET \* the match on lcd_y: draw_scanline() below SCREEN_HEIGHT (recorded in
        \* `drawn`), the VBlank interrupt at SCREEN_HEIGHT, lcd_y = 0 at
        \* VBLANK_HEIGHT; then lcd_y += 1
        next_line(l3, h3) ==
            [lcd |-> [l3 EXCEPT !.lcd_y = (IF @ = VBLANK_HEIGHT THEN 0 ELSE @) + 1],
             ih |-> IF l3.lcd_y = SCREEN_HEIGHT THEN set_interrupt(h3, VBlank) ELSE h3,
             drawn |-> IF l3.lcd_y < SCREEN_HEIGHT THEN <<l3.lcd_y>> ELSE <<>>]
        counted(l2, h2) ==
            IF l2.scanline_cycle_count > 0 THEN [lcd |-> l2, ih |-> h2, drawn |-> <<>>]
            ELSE next_line([l2 EXCEPT !.scanline_cycle_count = SCANLINE_CYCLE_TOTAL], h2)
        given(st) ==
            IF ~control_enable(st.lcd) THEN [lcd |-> st.lcd, ih |-> st.ih, drawn |-> <<>>]
            ELSE counted([st.lcd EXCEPT !.scanline_cycle_count = @ - 4], st.ih)
    IN  given(set_status(l, h))

\* what each of n consecutive LCD::step calls returns, oldest first (split
\* in halves to keep the evaluation shallow)
RECURSIVE LCD_steps(_, _, _)
LCD_steps(l, h, n) ==
    LET after(done) ==
            done \o LCD_steps(done[Len(done)].lcd, done[Len(done)].ih, n - Len(done))
    IN  IF n = 0 THEN <<>>
        ELSE IF n = 1 THEN <<LCD_step(l, h)>>
        ELSE after(LCD_steps(l, h, n \div 2))

(***************************************************************************)
(* cartridge.rs: the no-banking variant (struct ROM)                       *)
(***************************************************************************)
\* ROM::read: rom and ram are both indexed by the bus address itself; an
\* index at or past the vector's length panics
ROM_read(c, addr) ==
    IF addr <= 32767
    THEN IF addr < c.rom_len THEN [v |-> Get(c.rom, addr), abort |-> FALSE]
         ELSE [v |-> 0, abort |-> TRUE]
    ELSE IF addr >= 40960 /\ addr <= 49151
    THEN IF addr < c.ram_size THEN [v |-> Get(c.ram, addr), abort |-> FALSE]
         ELSE [v |-> 0, abort |-> TRUE]
    ELSE [v |-> 255, abort |-> FALSE]

\* ROM::write
ROM_write(c, addr, value) ==
    IF addr >= 40960 /\ addr <= 49151
    THEN IF addr < c.ram_size THEN [cart |-> [c EXCEPT !.ram = Put(@, addr, value)], abort |-> FALSE]
         ELSE [cart |-> c, abort |-> TRUE]
    ELSE [cart |-> c, abort |-> FALSE]

\* MBC1::new: the image and RAM of the header's size, bank 1, RAM off
MBC1_new(rom, rom_len, ram_size) ==
    [mbc |-> "MBC1", rom |-> rom, rom_len |-> rom_len, ram |-> EmptyMap, ram_size |-> ram_size,
     rom_bank_selection |-> 1, ram_bank_selection |-> 0,
     ram_enabled |-> FALSE, ram_select_mode |-> FALSE]

\* MBC1::read_selected_rom_bank that reads the fixed bank 1
read_selected_rom_bank_fixed(c, addr) ==
    IF addr < c.rom_len THEN Get(c.rom, addr) ELSE 255

\* MBC1::read_selected_rom_bank
read_selected_rom_bank(c, addr) ==
    LET given(bank_addr) == IF bank_addr < c.rom_len THEN Get(c.rom, bank_addr) ELSE 255
    IN  given(16384 * c.rom_bank_selection + (addr - 16384))

\* MBC1::read_selected_ram_bank
read_selected_ram_bank(c, addr) ==
    LET given(bank_addr) == IF bank_addr < c.ram_size THEN Get(c.ram, bank_addr) ELSE 255
    IN  IF ~c.ram_enabled THEN 255
        ELSE given(8192 * c.ram_bank_selection + (addr - 40960))

\* MBC1::write_selected_ram_bank (the bank address is a u16: at most
\* 0x2000 * 3 + 0x1FFF, which does not overflow)
write_selected_ram_bank(c, addr, value) ==
    LET given(bank_addr) ==
            IF bank_addr < c.ram_size THEN [c EXCEPT !.ram = Put(@, bank_addr, value)] ELSE c
    IN  IF ~c.ram_enabled THEN c
        ELSE given(8192 * c.ram_bank_selection + (addr - 40960))

\* MBC1::enable_ram that looks at the whole byte
enable_ram_whole_byte(c, value) == [c EXCEPT !.ram_enabled = (value = 10)]

\* MBC1::enable_ram
enable_ram(c, value) == [c EXCEPT !.ram_enabled = (value % 16 = 10)]

\* MBC1::select_ram_bank that stores the whole byte
select_ram_bank_whole_byte(c, value) == [c EXCEPT !.ram_bank_selection = value]

\* MBC1::select_ram_bank
select_ram_bank(c, value) == [c EXCEPT !.ram_bank_selection = value % 4]

\* MBC1::select_rom_bank_lower_bits without the coercion of 0 to 1
select_rom_bank_lower_bits_uncoerced(c, value) ==
    [c EXCEPT !.rom_bank_selection = BitOr(BitAnd(@, 96), value % 32)]

\* MBC1::select_rom_bank_lower_bits
select_rom_bank_lower_bits(c, value) ==
    [c EXCEPT !.rom_bank_selection =
        BitOr(BitAnd(@, 96), IF value % 32 = 0 THEN 1 ELSE value % 32)]

\* MBC1::select_rom_bank_upper_bits
select_rom_bank_upper_bits(c, value) ==
    [c EXCEPT !.rom_bank_selection = BitOr(BitAnd(@, 31), (value % 4) * 32)]

\* MBC1::read (rom[addr] is an index into the image: out of it, a panic)
MBC1_read(c, addr) ==
    IF addr <= 16383
    THEN IF addr < c.rom_len THEN [v |-> Get(c.rom, addr), abort |-> FALSE]
         ELSE [v |-> 0, abort |-> TRUE]
    ELSE IF addr <= 32767 THEN [v |-> read_selected_rom_bank(c, addr), abort |-> FALSE]
    ELSE IF addr >= 40960 /\ addr <= 49151
    THEN [v |-> read_selected_ram_bank(c, addr), abort |-> FALSE]
    ELSE [v |-> 0, abort |-> TRUE]

\* MBC1::write
MBC1_write(c, addr, value) ==
    LET plain(c1) == [cart |-> c1, abort |-> FALSE]
    IN  IF addr <= 8191 THEN plain(enable_ram(c, value))
        ELSE IF addr <= 16383 THEN plain(select_rom_bank_lower_bits(c, value))
        ELSE IF addr <= 24575
        THEN plain(IF c.ram_select_mode THEN select_ram_bank(c, value)
                   ELSE select_rom_bank_upper_bits(c, value))
        ELSE IF addr <= 32767 THEN plain([c EXCEPT !.ram_select_mode = (value % 2 = 1)])
        ELSE IF addr >= 40960 /\ addr <= 49151
        THEN plain(write_selected_ram_bank(c, addr, value))
        ELSE [cart |-> c, abort |-> TRUE]

\* Cartridge::read: self.mbc.read(addr)
Cartridge_read(c, addr) ==
    IF c.mbc = "MBC1" THEN MBC1_read(c, addr) ELSE ROM_read(c, addr)

\* Cartridge::write: self.mbc.write(addr, value)
Cartridge_write(c, addr, value) ==
    IF c.mbc = "MBC1" THEN MBC1_write(c, addr, value) ELSE ROM_write(c, addr, value)

(***************************************************************************)
(* mmu.rs                                                                  *)
(***************************************************************************)
Mem_new == [system_ram |-> EmptyMap, high_ram |-> EmptyMap, serial |-> 0,
            vram_tile_data |-> EmptyMap, vram_bg_maps |-> EmptyMap,
            vram_oam |-> EmptyMap]

\* the three clocks of the machine: the cycle counter and the number of
\* Timer and LCD steps taken
Clock(s) == <<s.cycles, s.timer_steps, s.lcd_steps>>

\* MMU::read_addr_map with 0xE000-0xFDFF read as unmapped
read_addr_map_unmirrored(s, addr) ==
    LET plain(v) == [v |-> v, abort |-> FALSE]
    IN  CASE addr <= 32767 -> Cartridge_read(s.cart, addr)
          [] addr >= 32768 /\ addr <= 38911 -> plain(Get(s.mem.vram_tile_data, addr - 32768))
          [] addr >= 38912 /\ addr <= 40959 -> plain(Get(s.mem.vram_bg_maps, addr - 38912))
          [] addr >= 40960 /\ addr <= 49151 -> Cartridge_read(s.cart, addr)
          [] addr >= 49152 /\ addr <= 57343 -> plain(Get(s.mem.system_ram, addr - 49152))
          [] addr >= 57344 /\ addr <= 65023 -> plain(255)
          [] addr >= 65024 /\ addr <= 65183 -> plain(Get(s.mem.vram_oam, addr - 65024))
          [] addr >= 65184 /\ addr <= 65283 -> plain(255)
          [] addr >= 65284 /\ addr <= 65287 -> plain(Timer_read_register(s.timer, addr))
          [] addr >= 65288 /\ addr <= 65294 -> plain(255)
          [] addr = 65295 -> plain(s.ih.flag)
          [] addr >= 65296 /\ addr <= 65343 -> plain(255)
          [] addr >= 65344 /\ addr <= 65355 -> plain(LCD_read_register(s.lcd, addr))
          [] addr >= 65356 /\ addr <= 65407 -> plain(255)
          [] addr >= 65408 /\ addr <= 65534 -> plain(Get(s.mem.high_ram, addr % 128))
          [] addr = 65535 -> plain(s.ih.enable)

\* MMU::read_addr_map
read_addr_map(s, addr) ==
    LET plain(v) == [v |-> v, abort |-> FALSE]
    IN  CASE addr <= 32767 -> Cartridge_read(s.cart, addr)
          [] addr >= 32768 /\ addr <= 38911 -> plain(Get(s.mem.vram_tile_data, addr - 32768))
          [] addr >= 38912 /\ addr <= 40959 -> plain(Get(s.mem.vram_bg_maps, addr - 38912))
          [] addr >= 40960 /\ addr <= 49151 -> Cartridge_read(s.cart, addr)
          [] addr >= 49152 /\ addr <= 57343 -> plain(Get(s.mem.system_ram, addr - 49152))
          [] addr >= 57344 /\ addr <= 65023 -> plain(Get(s.mem.system_ram, addr - 57344))
          [] addr >= 65024 /\ addr <= 65183 -> plain(Get(s.mem.vram_oam, addr - 65024))
          [] addr >= 65184 /\ addr <= 65283 -> plain(255)
          [] addr >= 65284 /\ addr <= 65287 -> plain(Timer_read_register(s.timer, addr))
          [] addr >= 65288 /\ addr <= 65294 -> plain(255)
          [] addr = 65295 -> plain(s.ih.flag)
          [] addr >= 65296 /\ addr <= 65343 -> plain(255)
          [] addr >= 65344 /\ addr <= 65355 -> plain(LCD_read_register(s.lcd, addr))
          [] addr >= 65356 /\ addr <= 65407 -> plain(255)
          [] addr >= 65408 /\ addr <= 65534 -> plain(Get(s.mem.high_ram, addr % 128))
          [] addr = 65535 -> plain(s.ih.enable)

\* MMU::step that leaves out the step of the LCD
MMU_step_without_lcd(s) ==
    LET given(ts) ==
            [s EXCEPT !.cycles = @ + 4,
                      !.timer = ts.timer,
                      !.ih = ts.ih,
                      !.timer_steps = @ + 1,
                      !.raised = BitOr(@, BitAnd(ts.ih.flag, Not8(s.ih.flag)))]
    IN  given(Timer_step(s.timer, s.ih))

\* MMU::step: add_machine_cycles(1), Timer::step, LCD::step. The cycle counter
\* is a u32; the runs of this model are bounded by MaxSteps and stay far
\* below 2^32, so its += is modelled without the overflow.
MMU_step(s) ==
    LET both(ts, ls) ==
            [s EXCEPT !.cycles = @ + 4,
                      !.timer = ts.timer,
                      !.lcd = ls.lcd,
                      !.ih = ls.ih,
                      !.timer_steps = @ + 1,
                      !.lcd_steps = @ + 1,
                      !.raised = BitOr(@, BitAnd(ls.ih.flag, Not8(s.ih.flag))),
                      !.drawn = @ \o ls.drawn]
        given(ts) == both(ts, LCD_step(s.lcd, ts.ih))
    IN  given(Timer_step(s.timer, s.ih))

BusOp(op, addr, value, s0, s1, s2) ==
    [op |-> op, addr |-> addr, value |-> value,
     at |-> Clock(s0), mapped |-> Clock(s1), done |-> Clock(s2)]

\* MMU::spin that steps twice
MMU_spin_twice(s) ==
    LET given(s1) == [s1 EXCEPT !.bus = Append(@, BusOp("spin", 0, 0, s, s1, s1))]
    IN  IF s.abort THEN s ELSE given(MMU_step(MMU_step(s)))

\* MMU::spin
MMU_spin(s) ==
    LET given(s1) == [s1 EXCEPT !.bus = Append(@, BusOp("spin", 0, 0, s, s1, s1))]
    IN  IF s.abort THEN s ELSE given(MMU_step(s))

\* MMU::read_u8: the state after the read and the byte read
MMU_read_u8(s, addr) ==
    LET mapped(s1, rd) ==
            [s |-> [s1 EXCEPT !.abort = rd.abort,
                              !.bus = Append(@, BusOp("read", addr, rd.v, s, s1, s1))],
             v |-> rd.v]
        given(s1) == mapped(s1, read_addr_map(s1, addr))
    IN  IF s.abort THEN [s |-> s, v |-> 0] ELSE given(MMU_step(s))

RECURSIVE MMU_write_u8(_, _, _)
RECURSIVE write_addr_map(_, _, _)
RECURSIVE dma_loop(_, _, _, _)

\* MMU::dma_transfer: the iterations lo .. hi - 1 of `for offset in 0x00..0xA0`,
\* in order (split in halves to keep the evaluation shallow)
dma_loop(s, addr, lo, hi) ==
    LET given(rd) == MMU_write_u8(rd.s, 65024 + lo, rd.v)
    IN  IF s.abort \/ lo >= hi THEN s
        ELSE IF hi = lo + 1 THEN given(MMU_read_u8(s, addr + lo))
        ELSE dma_loop(dma_loop(s, addr, lo, (lo + hi) \div 2), addr, (lo + hi) \div 2, hi)

\* let addr = value as u16 * 100
dma_transfer(s, value) == dma_loop(s, value * 100, 0, 160)

\* MMU::write_addr_map
write_addr_map(s, addr, value) ==
    CASE addr <= 32767 \/ (addr >= 40960 /\ addr <= 49151) ->
            LET given(w) == [s EXCEPT !.cart = w.cart, !.abort = w.abort]
            IN  given(Cartridge_write(s.cart, addr, value))
      [] addr >= 32768 /\ addr <= 38911 ->
            [s EXCEPT !.mem.vram_tile_data = Put(@, addr - 32768, value)]
      [] addr >= 38912 /\ addr <= 40959 ->
            [s EXCEPT !.mem.vram_bg_maps = Put(@, addr - 38912, value)]
      [] addr >= 49152 /\ addr <= 57343 ->
            [s EXCEPT !.mem.system_ram = Put(@, addr - 49152, value)]
      [] addr >= 57344 /\ addr <= 65023 ->
            [s EXCEPT !.mem.system_ram = Put(@, addr - 57344, value)]
      [] addr >= 65024 /\ addr <= 65183 ->
            [s EXCEPT !.mem.vram_oam = Put(@, addr - 65024, value)]
      [] addr >= 65184 /\ addr <= 65280 -> s
      [] addr = 65281 -> [s EXCEPT !.mem.serial = value]
      [] addr >= 65282 /\ addr <= 65283 -> s
      [] addr >= 65284 /\ addr <= 65287 ->
            [s EXCEPT !.timer = Timer_write_register(@, addr, value)]
      [] addr >= 65288 /\ addr <= 65294 -> s
      [] addr = 65295 -> [s EXCEPT !.ih = set_flag(@, value)]
      [] addr >= 65296 /\ addr <= 65343 -> s
      [] addr >= 65344 /\ addr <= 65349 ->
            [s EXCEPT !.lcd = LCD_write_register(@, addr, value)]
      [] addr = 65350 -> dma_transfer(s, value)
      [] addr >= 65351 /\ addr <= 65355 ->
            [s EXCEPT !.lcd = LCD_write_register(@, addr, value)]
      [] addr >= 65356 /\ addr <= 65407 -> s
      [] addr >= 65408 /\ addr <= 65534 ->
            [s EXCEPT !.mem.high_ram = Put(@, addr % 128, value)]
      [] addr = 65535 -> [s EXCEPT !.ih = set_enable(@, value)]

\* MMU::write_u8 that maps the write first and steps afterwards
MMU_write_u8_then_step(s, addr, value) ==
    LET stepped(s1, s2) == [s2 EXCEPT !.bus = Append(@, BusOp("write", addr, value, s, s, s2))]
        given(s1) == stepped(s1, MMU_step(s1))
    IN  IF s.abort THEN s ELSE given(write_addr_map(s, addr, value))

\* MMU::write_u8
MMU_write_u8(s, addr, value) ==
    LET mapped(s1, s2) == [s2 EXCEPT !.bus = Append(@, BusOp("write", addr, value, s, s1, s2))]
        given(s1) == mapped(s1, write_addr_map(s1, addr, value))
    IN  IF s.abort THEN s ELSE given(MMU_step(s))

\* A method call on the machine: CPU::step, or one of the calls
\* mmu.read_u8(addr), mmu.write_u8(addr, value) and mmu.spin() that the CPU
\* makes while it steps (defined below, after CPU::step)
RECURSIVE invoke(_, _)

mmu_read_u8(s, addr) == invoke(s, [fn |-> "read_u8", addr |-> addr, value |-> 0])
mmu_write_u8(s, addr, value) == invoke(s, [fn |-> "write_u8", addr |-> addr, value |-> value])
mmu_spin(s) == invoke(s, [fn |-> "spin", addr |-> 0, value |-> 0])

(***************************************************************************)
(* registers.rs                                                            *)
(***************************************************************************)
ZERO == 128
NEGATIVE == 64
HALFCARRY == 32
CARRY == 16

\* Flags::check
check(flag, condition) == IF condition THEN flag ELSE 0
\* Flags::contains, for a single flag
contains(f, flag) == (f \div flag) % 2 = 1
\* Flags::from_bits_truncate
\* from_bits that keeps all eight bits
from_bits_unmasked(v) == v

from_bits_truncate(v) == v - (v % 16)

Registers_new == [a |-> 1, f |-> ZERO + HALFCARRY + CARRY, b |-> 0, c |-> 19,
                  d |-> 0, e |-> 216, h |-> 1, l |-> 77, sp |-> 65534, pc |-> 256]

get_u16(rg, reg) ==
    CASE reg = "AF" -> rg.a * 256 + rg.f
      [] reg = "BC" -> rg.b * 256 + rg.c
      [] reg = "DE" -> rg.d * 256 + rg.e
      [] reg = "HL" -> rg.h * 256 + rg.l
      [] reg = "SP" -> rg.sp

set_u16(rg, reg, value) ==
    CASE reg = "AF" -> [rg EXCEPT !.a = value \div 256, !.f = from_bits_truncate(value % 256)]
      [] reg = "BC" -> [rg EXCEPT !.b = value \div 256, !.c = value % 256]
      [] reg = "DE" -> [rg EXCEPT !.d = value \div 256, !.e = value % 256]
      [] reg = "HL" -> [rg EXCEPT !.h = value \div 256, !.l = value % 256]
      [] reg = "SP" -> [rg EXCEPT !.sp = value]

(***************************************************************************)
(* cpu.rs: operands                                                        *)
(***************************************************************************)
Register8Bit == {"A", "B", "C", "D", "E", "H", "L"}
Register16Bit == {"AF", "BC", "DE", "HL", "SP"}

\* impl ReadU8 for Register8Bit
reg_read_u8(rg, reg) ==
    CASE reg = "A" -> rg.a [] reg = "B" -> rg.b [] reg = "C" -> rg.c
      [] reg = "D" -> rg.d [] reg = "E" -> rg.e [] reg = "H" -> rg.h
      [] reg = "L" -> rg.l

\* impl WriteU8 for Register8Bit
reg_write_u8(rg, reg, value) ==
    CASE reg = "A" -> [rg EXCEPT !.a = value] [] reg = "B" -> [rg EXCEPT !.b = value]
      [] reg = "C" -> [rg EXCEPT !.c = value] [] reg = "D" -> [rg EXCEPT !.d = value]
      [] reg = "E" -> [rg EXCEPT !.e = value] [] reg = "H" -> [rg EXCEPT !.h = value]
      [] reg = "L" -> [rg EXCEPT !.l = value]

\* Condition::check
condition_check(condition, flags) ==
    CASE condition = "NOTZERO" -> ~contains(flags, ZERO)
      [] condition = "ZERO" -> contains(flags, ZERO)
      [] condition = "NOTCARRY" -> ~contains(flags, CARRY)
      [] condition = "CARRY" -> contains(flags, CARRY)

read_address(s, address) == mmu_read_u8(s, address)
write_address(s, address, value) == mmu_write_u8(s, address, value)

next_u8(s) ==
    LET address == s.r.pc
    IN  read_address([s EXCEPT !.r.pc = wrapping_add16(@, 1)], address)

next_u16(s) ==
    LET both(low, high) == [s |-> high.s, v |-> high.v * 256 + low.v]
        given(low) == both(low, next_u8(low.s))
    IN  given(next_u8(s))

push_u8(s, value) ==
    LET s1 == [s EXCEPT !.r.sp = wrapping_sub16(@, 1)]
    IN  write_address(s1, s1.r.sp, value)

\* push_u16 that pushes the low byte first
push_u16_low_first(s, value) == push_u8(push_u8(s, value % 256), value \div 256)

push_u16(s, value) == push_u8(push_u8(s, value \div 256), value % 256)

pop_u8(s) ==
    LET given(rd) == [s |-> [rd.s EXCEPT !.r.sp = wrapping_add16(@, 1)], v |-> rd.v]
    IN  given(read_address(s, s.r.sp))

pop_u16(s) ==
    LET both(low, high) == [s |-> high.s, v |-> high.v * 256 + low.v]
        given(low) == both(low, pop_u8(low.s))
    IN  given(pop_u8(s))

\* CPU::get_address: the state after it and the address
get_address(s, address) ==
    LET high_ram(n) == [s |-> n.s, v |-> 65280 + n.v]
    IN
    CASE address = "(BC)" -> [s |-> s, v |-> get_u16(s.r, "BC")]
      [] address = "(DE)" -> [s |-> s, v |-> get_u16(s.r, "DE")]
      [] address = "(HL)" -> [s |-> s, v |-> get_u16(s.r, "HL")]
      [] address = "(HLD)" ->
            LET a0 == get_u16(s.r, "HL")
            IN  [s |-> [s EXCEPT !.r = set_u16(@, "HL", wrapping_sub16(a0, 1))], v |-> a0]
      [] address = "(HLI)" ->
            LET a0 == get_u16(s.r, "HL")
            IN  [s |-> [s EXCEPT !.r = set_u16(@, "HL", wrapping_add16(a0, 1))], v |-> a0]
      [] address = "(NextU16)" -> next_u16(s)
      [] address = "(HighRAM)" ->
            high_ram(next_u8(s))
      [] address = "(HighRAMC)" -> [s |-> s, v |-> 65280 + s.r.c]

\* the ReadU8 implementations: NextU8, Register8Bit, Address
operand_read_u8(s, x) ==
    IF x = "NextU8" THEN next_u8(s)
    ELSE IF x \in Register8Bit THEN [s |-> s, v |-> reg_read_u8(s.r, x)]
    ELSE LET given(a) == read_address(a.s, a.v) IN given(get_address(s, x))

\* the WriteU8 implementations: Register8Bit, Address
operand_write_u8(s, x, value) ==
    IF x \in Register8Bit THEN [s EXCEPT !.r = reg_write_u8(@, x, value)]
    ELSE LET given(a) == write_address(a.s, a.v, value) IN given(get_address(s, x))

\* the ReadU16 implementations: NextU16, Register16Bit
operand_read_u16(s, x) ==
    IF x = "NextU16" THEN next_u16(s)
    ELSE [s |-> s, v |-> get_u16(s.r, x)]

\* the WriteU16 implementations: Register16Bit, Address.  `address + 1` is
\* a plain u16 addition: at 0xFFFF it panics when the build checks overflow
\* and wraps to 0 when it does not
operand_write_u16(s, x, value) ==
    IF x \in Register16Bit THEN [s EXCEPT !.r = set_u16(@, x, value)]
    ELSE LET high(a, s1) ==
                 IF a.v = 65535 /\ s.overflow_checks THEN [s1 EXCEPT !.abort = TRUE]
                 ELSE write_address(s1, (a.v + 1) % 65536, value \div 256)
             given(a) == high(a, write_address(a.s, a.v, value % 256))
         IN  given(get_address(s, x))

(***************************************************************************)
(* cpu.rs: control transfer                                                *)
(***************************************************************************)
call_address(s, address) ==
    LET given(s1) == [push_u16(s1, s1.r.pc) EXCEPT !.r.pc = address]
    IN  given(mmu_spin(s))

jump(s, address) == [s EXCEPT !.r.pc = address]

\* offset as i8, then as u16: sign extension
jump_relative(s, offset) ==
    LET s1 == mmu_spin(s)
        ext == IF offset >= 128 THEN 65280 + offset ELSE offset
    IN  [s1 EXCEPT !.r.pc = wrapping_add16(@, ext)]

return_op(s) ==
    LET p == pop_u16(s) IN jump(p.s, p.v)

(***************************************************************************)
(* cpu.rs: 8-bit operations                                                *)
(***************************************************************************)
ld(s, w, rd) ==
    LET x == operand_read_u8(s, rd) IN operand_write_u8(x.s, w, x.v)

add(s, rd) ==
    LET given(x) ==
            LET a == x.s.r.a
                result8 == (a + x.v) % 256
                carry == a + x.v > 255
                half_carry == (a % 16) + (x.v % 16) > 15
            IN  [x.s EXCEPT !.r.f = check(ZERO, result8 = 0) + check(HALFCARRY, half_carry)
                                     + check(CARRY, carry),
                            !.r.a = result8]
    IN  given(operand_read_u8(s, rd))

\* ADC that adds the carry to the result and leaves it out of the flags
adc_flags_without_carry(s, rd) ==
    LET given(x) ==
            LET a == x.s.r.a
                carried == IF contains(x.s.r.f, CARRY) THEN 1 ELSE 0
                result8 == wrapping_add8(wrapping_add8(a, x.v), carried)
                carry == a + x.v > 255
                half_carry == (a % 16) + (x.v % 16) > 15
            IN  [x.s EXCEPT !.r.f = check(ZERO, result8 = 0) + check(HALFCARRY, half_carry)
                                     + check(CARRY, carry),
                            !.r.a = result8]
    IN  given(operand_read_u8(s, rd))

adc(s, rd) ==
    LET given(x) ==
            LET a == x.s.r.a
                carried == IF contains(x.s.r.f, CARRY) THEN 1 ELSE 0
                result8 == wrapping_add8(wrapping_add8(a, x.v), carried)
                carry == a + x.v + carried > 255
                half_carry == (a % 16) + (x.v % 16) + carried > 15
            IN  [x.s EXCEPT !.r.f = check(ZERO, result8 = 0) + check(HALFCARRY, half_carry)
                                     + check(CARRY, carry),
                            !.r.a = result8]
    IN  given(operand_read_u8(s, rd))

sub(s, rd) ==
    LET given(x) ==
            LET a == x.s.r.a
                result8 == wrapping_sub8(a, x.v)
            IN  [x.s EXCEPT !.r.f = check(ZERO, result8 = 0) + NEGATIVE
                                     + check(HALFCARRY, (a % 16) < (x.v % 16))
                                     + check(CARRY, a < x.v),
                            !.r.a = result8]
    IN  given(operand_read_u8(s, rd))

\* SBC whose half-carry leaves the borrow out
sbc_half_carry_without_borrow(s, rd) ==
    LET given(x) ==
            LET a == x.s.r.a
                carried == IF contains(x.s.r.f, CARRY) THEN 1 ELSE 0
                result8 == wrapping_sub8(wrapping_sub8(a, x.v), carried)
                half_carry == (a % 16) < (x.v % 16)
                carry == a < x.v + carried
            IN  [x.s EXCEPT !.r.f = check(ZERO, result8 = 0) + NEGATIVE
                                     + check(HALFCARRY, half_carry) + check(CARRY, carry),
                            !.r.a = result8]
    IN  given(operand_read_u8(s, rd))

sbc(s, rd) ==
    LET given(x) ==
            LET a == x.s.r.a
                carried == IF contains(x.s.r.f, CARRY) THEN 1 ELSE 0
                result8 == wrapping_sub8(wrapping_sub8(a, x.v), carried)
                half_carry == (a % 16) < (x.v % 16) + carried
                carry == a < x.v + carried
            IN  [x.s EXCEPT !.r.f = check(ZERO, result8 = 0) + NEGATIVE
                                     + check(HALFCARRY, half_carry) + check(CARRY, carry),
                            !.r.a = result8]
    IN  given(operand_read_u8(s, rd))

and(s, rd) ==
    LET given(x) ==
            LET a == BitAnd(x.s.r.a, x.v)
            IN  [x.s EXCEPT !.r.a = a, !.r.f = check(ZERO, a = 0) + HALFCARRY]
    IN  given(operand_read_u8(s, rd))

or(s, rd) ==
    LET given(x) ==
            LET a == BitOr(x.s.r.a, x.v)
            IN  [x.s EXCEPT !.r.a = a, !.r.f = check(ZERO, a = 0)]
    IN  given(operand_read_u8(s, rd))

xor(s, rd) ==
    LET given(x) ==
            LET a == BitXor(x.s.r.a, x.v)
            IN  [x.s EXCEPT !.r.a = a, !.r.f = check(ZERO, a = 0)]
    IN  given(operand_read_u8(s, rd))

cp(s, rd) ==
    LET given(x) ==
            LET a == x.s.r.a
                result8 == wrapping_sub8(a, x.v)
            IN  [x.s EXCEPT !.r.f = check(ZERO, result8 = 0) + NEGATIVE
                                     + check(HALFCARRY, (a % 16) < (x.v % 16))
                                     + check(CARRY, a < x.v)]
    IN  given(operand_read_u8(s, rd))

inc(s, rw) ==
    LET given(x) ==
            LET new_value == wrapping_add8(x.v, 1)
                s1 == [x.s EXCEPT !.r.f = check(ZERO, new_value = 0)
                                          + check(HALFCARRY, x.v % 16 = 15)
                                          + BitAnd(CARRY, @)]
            IN  operand_write_u8(s1, rw, new_value)
    IN  given(operand_read_u8(s, rw))

dec(s, rw) ==
    LET given(x) ==
            LET new_value == wrapping_sub8(x.v, 1)
                s1 == [x.s EXCEPT !.r.f = check(ZERO, new_value = 0) + NEGATIVE
                                          + check(HALFCARRY, x.v % 16 = 0)
                                          + BitAnd(CARRY, @)]
            IN  operand_write_u8(s1, rw, new_value)
    IN  given(operand_read_u8(s, rw))

\* a JP that reads its operand and spins but leaves PC behind the operand
jp_stay(s, rd) ==
    LET x == operand_read_u16(s, rd) IN mmu_spin(x.s)

jp(s, rd) ==
    LET x == operand_read_u16(s, rd) IN jump(mmu_spin(x.s), x.v)

jp_hl(s, rd) ==
    LET x == operand_read_u16(s, rd) IN jump(x.s, x.v)

jr(s) ==
    LET x == next_u8(s) IN jump_relative(x.s, x.v)

call(s) ==
    LET x == next_u16(s) IN call_address(x.s, x.v)

rst(s, address) ==
    LET pc == s.r.pc
        s1 == push_u16(mmu_spin(s), pc)
    IN  [s1 EXCEPT !.r.pc = address]

ret(s) == return_op(s)

jp_conditional(s, condition) ==
    LET given(x) == IF condition_check(condition, x.s.r.f) THEN jump(mmu_spin(x.s), x.v) ELSE x.s
    IN  given(next_u16(s))

jr_conditional(s, condition) ==
    LET given(x) == IF condition_check(condition, x.s.r.f) THEN jump_relative(x.s, x.v) ELSE x.s
    IN  given(next_u8(s))

call_conditional(s, condition) ==
    LET given(x) == IF condition_check(condition, x.s.r.f) THEN call_address(x.s, x.v) ELSE x.s
    IN  given(next_u16(s))

ret_conditional(s, condition) ==
    LET given(s1) == IF condition_check(condition, s1.r.f) THEN return_op(s1) ELSE s1
    IN  given(mmu_spin(s))

\* RETI that enables dispatch at once
reti_at_once(s) == return_op([s EXCEPT !.interrupt_state = "Enabled"])

reti(s) == return_op([s EXCEPT !.interrupt_state = "Enabling"])

di(s) == [s EXCEPT !.interrupt_state = "Disabled"]

\* EI that enables dispatch at once
ei_at_once(s) == [s EXCEPT !.interrupt_state = "Enabled"]

ei(s) ==
    [s EXCEPT !.interrupt_state = IF @ = "Disabled" THEN "Enabling" ELSE @]

rlc(s, rw, cb) ==
    LET given(x) ==
            LET carried == x.v \div 128
                new_value == ((x.v * 2) % 256) + carried
                s1 == [x.s EXCEPT !.r.f = check(ZERO, cb /\ new_value = 0)
                                          + check(CARRY, carried # 0)]
            IN  operand_write_u8(s1, rw, new_value)
    IN  given(operand_read_u8(s, rw))

rl(s, rw, cb) ==
    LET given(x) ==
            LET prev_carried == IF contains(x.s.r.f, CARRY) THEN 1 ELSE 0
                carried == x.v \div 128
                new_value == ((x.v * 2) % 256) + prev_carried
                s1 == [x.s EXCEPT !.r.f = check(ZERO, cb /\ new_value = 0)
                                          + check(CARRY, carried # 0)]
            IN  operand_write_u8(s1, rw, new_value)
    IN  given(operand_read_u8(s, rw))

rrc(s, rw, cb) ==
    LET given(x) ==
            LET carried == x.v % 2
                new_value == (x.v \div 2) + 128 * carried
                s1 == [x.s EXCEPT !.r.f = check(ZERO, cb /\ new_value = 0)
                                          + check(CARRY, carried # 0)]
            IN  operand_write_u8(s1, rw, new_value)
    IN  given(operand_read_u8(s, rw))

rr(s, rw, cb) ==
    LET given(x) ==
            LET prev_carried == IF contains(x.s.r.f, CARRY) THEN 1 ELSE 0
                carried == x.v % 2
                new_value == (x.v \div 2) + 128 * prev_carried
                s1 == [x.s EXCEPT !.r.f = check(ZERO, cb /\ new_value = 0)
                                          + check(CARRY, carried # 0)]
            IN  operand_write_u8(s1, rw, new_value)
    IN  given(operand_read_u8(s, rw))

sla(s, rw) ==
    LET given(x) ==
            LET carried == x.v \div 128
                new_value == (x.v * 2) % 256
                s1 == [x.s EXCEPT !.r.f = check(ZERO, new_value = 0) + check(CARRY, carried # 0)]
            IN  operand_write_u8(s1, rw, new_value)
    IN  given(operand_read_u8(s, rw))

sra(s, rw) ==
    LET given(x) ==
            LET carried == x.v % 2
                new_value == 128 * (x.v \div 128) + (x.v \div 2)
                s1 == [x.s EXCEPT !.r.f = check(ZERO, new_value = 0) + check(CARRY, carried # 0)]
            IN  operand_write_u8(s1, rw, new_value)
    IN  given(operand_read_u8(s, rw))

srl(s, rw) ==
    LET given(x) ==
            LET carried == x.v % 2
                new_value == x.v \div 2
                s1 == [x.s EXCEPT !.r.f = check(ZERO, new_value = 0) + check(CARRY, carried = 1)]
            IN  operand_write_u8(s1, rw, new_value)
    IN  given(operand_read_u8(s, rw))

bit(s, n, rd) ==
    LET given(x) == [x.s EXCEPT !.r.f = check(ZERO, Bit(x.v, n) = 0) + HALFCARRY + BitAnd(CARRY, @)]
    IN  given(operand_read_u8(s, rd))

set(s, n, rw) ==
    LET given(x) == operand_write_u8(x.s, rw, BitOr(x.v, 2 ^ n))
    IN  given(operand_read_u8(s, rw))

res(s, n, rw) ==
    LET given(x) == operand_write_u8(x.s, rw, BitAnd(x.v, Not8(2 ^ n)))
    IN  given(operand_read_u8(s, rw))

swap(s, rw) ==
    LET given(x) ==
            LET new_value == (x.v % 16) * 16 + (x.v \div 16)
                s1 == [x.s EXCEPT !.r.f = check(ZERO, new_value = 0)]
            IN  operand_write_u8(s1, rw, new_value)
    IN  given(operand_read_u8(s, rw))

\* DAA that adds 0x60 only when Carry is set, not when A exceeds 0x99
daa_without_high_test(s) ==
    LET a0 == s.r.a
        negative == contains(s.r.f, NEGATIVE)
        half_carry == contains(s.r.f, HALFCARRY)
        carry0 == contains(s.r.f, CARRY)
        add_hi == ~negative /\ carry0
        a1 == IF negative
              THEN (IF carry0 THEN wrapping_sub8(a0, 96) ELSE a0)
              ELSE (IF add_hi THEN wrapping_add8(a0, 96) ELSE a0)
        a2 == IF negative
              THEN (IF half_carry THEN wrapping_sub8(a1, 6) ELSE a1)
              ELSE (IF half_carry \/ (a1 % 16) > 9 THEN wrapping_add8(a1, 6) ELSE a1)
        carry == carry0 \/ add_hi
    IN  [s EXCEPT !.r.f = check(ZERO, a2 = 0) + BitAnd(NEGATIVE, @) + check(CARRY, carry),
                  !.r.a = a2]

daa(s) ==
    LET a0 == s.r.a
        negative == contains(s.r.f, NEGATIVE)
        half_carry == contains(s.r.f, HALFCARRY)
        carry0 == contains(s.r.f, CARRY)
        add_hi == ~negative /\ (carry0 \/ a0 > 153)
        a1 == IF negative
              THEN (IF carry0 THEN wrapping_sub8(a0, 96) ELSE a0)
              ELSE (IF add_hi THEN wrapping_add8(a0, 96) ELSE a0)
        a2 == IF negative
              THEN (IF half_carry THEN wrapping_sub8(a1, 6) ELSE a1)
              ELSE (IF half_carry \/ (a1 % 16) > 9 THEN wrapping_add8(a1, 6) ELSE a1)
        carry == carry0 \/ add_hi
    IN  [s EXCEPT !.r.f = check(ZERO, a2 = 0) + BitAnd(NEGATIVE, @) + check(CARRY, carry),
                  !.r.a = a2]

cpl(s) ==
    [s EXCEPT !.r.a = Not8(@),
              !.r.f = BitAnd(ZERO, @) + NEGATIVE + HALFCARRY + BitAnd(CARRY, @)]

ccf(s) ==
    [s EXCEPT !.r.f = BitAnd(ZERO, @) + BitAnd(Not8(BitAnd(CARRY, @)), CARRY)]

scf(s) == [s EXCEPT !.r.f = BitAnd(ZERO, @) + CARRY]

halt(s) == [s EXCEPT !.halted = TRUE]

stop(s) == next_u8(halt(s)).s

(***************************************************************************)
(* cpu.rs: 16-bit operations                                               *)
(***************************************************************************)
ld16(s, w, rd) ==
    LET x == operand_read_u16(s, rd) IN operand_write_u16(x.s, w, x.v)

\* the operand byte as i8 as i16 as u16
sign_extend(v) == IF v >= 128 THEN 65280 + v ELSE v

ld16_sp_n(s) ==
    LET sp == get_u16(s.r, "SP")
        given(x, value) ==
            [mmu_spin(x.s) EXCEPT !.r = set_u16([@ EXCEPT !.f =
                                     check(HALFCARRY, (sp % 16) + (value % 16) > 15)
                                     + check(CARRY, (sp % 256) + (value % 256) > 255)],
                                 "HL", wrapping_add16(sp, value))]
        operand(x) == given(x, sign_extend(x.v))
    IN  operand(next_u8(s))

push16(s, rd) ==
    LET x == operand_read_u16(s, rd) IN push_u16(mmu_spin(x.s), x.v)

pop16(s, w) ==
    LET x == pop_u16(s) IN operand_write_u16(x.s, w, x.v)

inc16(s, rw) ==
    LET given(x) == operand_write_u16(mmu_spin(x.s), rw, wrapping_add16(x.v, 1))
    IN  given(operand_read_u16(s, rw))

dec16(s, rw) ==
    LET given(x) == operand_write_u16(mmu_spin(x.s), rw, wrapping_sub16(x.v, 1))
    IN  given(operand_read_u16(s, rw))

add16_hl(s, rd) ==
    LET hl == get_u16(s.r, "HL")
        mask == (2 ^ 11) - 1
        given(x) ==
            [mmu_spin(x.s) EXCEPT !.r = set_u16([@ EXCEPT !.f = BitAnd(ZERO, @)
                                     + check(HALFCARRY, (hl % (mask + 1)) + (x.v % (mask + 1)) > mask)
                                     + check(CARRY, hl > 65535 - x.v)],
                                 "HL", wrapping_add16(hl, x.v))]
    IN  given(operand_read_u16(s, rd))

add16_sp(s) ==
    LET sp == get_u16(s.r, "SP")
        given(x, value) ==
            [mmu_spin(x.s) EXCEPT !.r = set_u16([@ EXCEPT !.f =
                                     check(HALFCARRY, (sp % 16) + (value % 16) > 15)
                                     + check(CARRY, (sp % 256) + (value % 256) > 255)],
                                 "SP", wrapping_add16(sp, value))]
        operand(x) == given(x, sign_extend(x.v))
    IN  operand(next_u8(s))

(***************************************************************************)
(* cpu.rs: the two match tables of CPU::step, entry op + 1 for opcode op   *)
(***************************************************************************)
CBTable ==
    << [fn |-> "rlc", a |-> "B", b |-> "", n |-> 1],
      [fn |-> "rlc", a |-> "C", b |-> "", n |-> 1],
      [fn |-> "rlc", a |-> "D", b |-> "", n |-> 1],
      [fn |-> "rlc", a |-> "E", b |-> "", n |-> 1],
      [fn |-> "rlc", a |-> "H", b |-> "", n |-> 1],
      [fn |-> "rlc", a |-> "L", b |-> "", n |-> 1],
      [fn |-> "rlc", a |-> "(HL)", b |-> "", n |-> 1],
      [fn |-> "rlc", a |-> "A", b |-> "", n |-> 1],
      [fn |-> "rrc", a |-> "B", b |-> "", n |-> 1],
      [fn |-> "rrc", a |-> "C", b |-> "", n |-> 1],
      [fn |-> "rrc", a |-> "D", b |-> "", n |-> 1],
      [fn |-> "rrc", a |-> "E", b |-> "", n |-> 1],
      [fn |-> "rrc", a |-> "H", b |-> "", n |-> 1],
      [fn |-> "rrc", a |-> "L", b |-> "", n |-> 1],
      [fn |-> "rrc", a |-> "(HL)", b |-> "", n |-> 1],
      [fn |-> "rrc", a |-> "A", b |-> "", n |-> 1],
      [fn |-> "rl", a |-> "B", b |-> "", n |-> 1],
      [fn |-> "rl", a |-> "C", b |-> "", n |-> 1],
      [fn |-> "rl", a |-> "D", b |-> "", n |-> 1],
      [fn |-> "rl", a |-> "E", b |-> "", n |-> 1],
      [fn |-> "rl", a |-> "H", b |-> "", n |-> 1],
      [fn |-> "rl", a |-> "L", b |-> "", n |-> 1],
      [fn |-> "rl", a |-> "(HL)", b |-> "", n |-> 1],
      [fn |-> "rl", a |-> "A", b |-> "", n |-> 1],
      [fn |-> "rr", a |-> "B", b |-> "", n |-> 1],
      [fn |-> "rr", a |-> "C", b |-> "", n |-> 1],
      [fn |-> "rr", a |-> "D", b |-> "", n |-> 1],
      [fn |-> "rr", a |-> "E", b |-> "", n |-> 1],
      [fn |-> "rr", a |-> "H", b |-> "", n |-> 1],
      [fn |-> "rr", a |-> "L", b |-> "", n |-> 1],
      [fn |-> "rr", a |-> "(HL)", b |-> "", n |-> 1],
      [fn |-> "rr", a |-> "A", b |-> "", n |-> 1],
      [fn |-> "sla", a |-> "B", b |-> "", n |-> 0],
      [fn |-> "sla", a |-> "C", b |-> "", n |-> 0],
      [fn |-> "sla", a |-> "D", b |-> "", n |-> 0],
      [fn |-> "sla", a |-> "E", b |-> "", n |-> 0],
      [fn |-> "sla", a |-> "H", b |-> "", n |-> 0],
      [fn |-> "sla", a |-> "L", b |-> "", n |-> 0],
      [fn |-> "sla", a |-> "(HL)", b |-> "", n |-> 0],
      [fn |-> "sla", a |-> "A", b |-> "", n |-> 0],
      [fn |-> "sra", a |-> "B", b |-> "", n |-> 0],
      [fn |-> "sra", a |-> "C", b |-> "", n |-> 0],
      [fn |-> "sra", a |-> "D", b |-> "", n |-> 0],
      [fn |-> "sra", a |-> "E", b |-> "", n |-> 0],
      [fn |-> "sra", a |-> "H", b |-> "", n |-> 0],
      [fn |-> "sra", a |-> "L", b |-> "", n |-> 0],
      [fn |-> "sra", a |-> "(HL)", b |-> "", n |-> 0],
      [fn |-> "sra", a |-> "A", b |-> "", n |-> 0],
      [fn |-> "swap", a |-> "B", b |-> "", n |-> 0],
      [fn |-> "swap", a |-> "C", b |-> "", n |-> 0],
      [fn |-> "swap", a |-> "D", b |-> "", n |-> 0],
      [fn |-> "swap", a |-> "E", b |-> "", n |-> 0],
      [fn |-> "swap", a |-> "H", b |-> "", n |-> 0],
      [fn |-> "swap", a |-> "L", b |-> "", n |-> 0],
      [fn |-> "swap", a |-> "(HL)", b |-> "", n |-> 0],
      [fn |-> "swap", a |-> "A", b |-> "", n |-> 0],
      [fn |-> "srl", a |-> "B", b |-> "", n |-> 0],
      [fn |-> "srl", a |-> "C", b |-> "", n |-> 0],
      [fn |-> "srl", a |-> "D", b |-> "", n |-> 0],
      [fn |-> "srl", a |-> "E", b |-> "", n |-> 0],
      [fn |-> "srl", a |-> "H", b |-> "", n |-> 0],
      [fn |-> "srl", a |-> "L", b |-> "", n |-> 0],
      [fn |-> "srl", a |-> "(HL)", b |-> "", n |-> 0],
      [fn |-> "srl", a |-> "A", b |-> "", n |-> 0],
      [fn |-> "bit", a |-> "B", b |-> "", n |-> 0],
      [fn |-> "bit", a |-> "C", b |-> "", n |-> 0],
      [fn |-> "bit", a |-> "D", b |-> "", n |-> 0],
      [fn |-> "bit", a |-> "E", b |-> "", n |-> 0],
      [fn |-> "bit", a |-> "H", b |-> "", n |-> 0],
      [fn |-> "bit", a |-> "L", b |-> "", n |-> 0],
      [fn |-> "bit", a |-> "(HL)", b |-> "", n |-> 0],
      [fn |-> "bit", a |-> "A", b |-> "", n |-> 0],
      [fn |-> "bit", a |-> "B", b |-> "", n |-> 1],
      [fn |-> "bit", a |-> "C", b |-> "", n |-> 1],
      [fn |-> "bit", a |-> "D", b |-> "", n |-> 1],
      [fn |-> "bit", a |-> "E", b |-> "", n |-> 1],
      [fn |-> "bit", a |-> "H", b |-> "", n |-> 1],
      [fn |-> "bit", a |-> "L", b |-> "", n |-> 1],
      [fn |-> "bit", a |-> "(HL)", b |-> "", n |-> 1],
      [fn |-> "bit", a |-> "A", b |-> "", n |-> 1],
      [fn |-> "bit", a |-> "B", b |-> "", n |-> 2],
      [fn |-> "bit", a |-> "C", b |-> "", n |-> 2],
      [fn |-> "bit", a |-> "D", b |-> "", n |-> 2],
      [fn |-> "bit", a |-> "E", b |-> "", n |-> 2],
      [fn |-> "bit", a |-> "H", b |-> "", n |-> 2],
      [fn |-> "bit", a |-> "L", b |-> "", n |-> 2],
      [fn |-> "bit", a |-> "(HL)", b |-> "", n |-> 2],
      [fn |-> "bit", a |-> "A", b |-> "", n |-> 2],
      [fn |-> "bit", a |-> "B", b |-> "", n |-> 3],
      [fn |-> "bit", a |-> "C", b |-> "", n |-> 3],
      [fn |-> "bit", a |-> "D", b |-> "", n |-> 3],
      [fn |-> "bit", a |-> "E", b |-> "", n |-> 3],
      [fn |-> "bit", a |-> "H", b |-> "", n |-> 3],
      [fn |-> "bit", a |-> "L", b |-> "", n |-> 3],
      [fn |-> "bit", a |-> "(HL)", b |-> "", n |-> 3],
      [fn |-> "bit", a |-> "A", b |-> "", n |-> 3],
      [fn |-> "bit", a |-> "B", b |-> "", n |-> 4],
      [fn |-> "bit", a |-> "C", b |-> "", n |-> 4],
      [fn |-> "bit", a |-> "D", b |-> "", n |-> 4],
      [fn |-> "bit", a |-> "E", b |-> "", n |-> 4],
      [fn |-> "bit", a |-> "H", b |-> "", n |-> 4],
      [fn |-> "bit", a |-> "L", b |-> "", n |-> 4],
      [fn |-> "bit", a |-> "(HL)", b |-> "", n |-> 4],
      [fn |-> "bit", a |-> "A", b |-> "", n |-> 4],
      [fn |-> "bit", a |-> "B", b |-> "", n |-> 5],
      [fn |-> "bit", a |-> "C", b |-> "", n |-> 5],
      [fn |-> "bit", a |-> "D", b |-> "", n |-> 5],
      [fn |-> "bit", a |-> "E", b |-> "", n |-> 5],
      [fn |-> "bit", a |-> "H", b |-> "", n |-> 5],
      [fn |-> "bit", a |-> "L", b |-> "", n |-> 5],
      [fn |-> "bit", a |-> "(HL)", b |-> "", n |-> 5],
      [fn |-> "bit", a |-> "A", b |-> "", n |-> 5],
      [fn |-> "bit", a |-> "B", b |-> "", n |-> 6],
      [fn |-> "bit", a |-> "C", b |-> "", n |-> 6],
      [fn |-> "bit", a |-> "D", b |-> "", n |-> 6],
      [fn |-> "bit", a |-> "E", b |-> "", n |-> 6],
      [fn |-> "bit", a |-> "H", b |-> "", n |-> 6],
      [fn |-> "bit", a |-> "L", b |-> "", n |-> 6],
      [fn |-> "bit", a |-> "(HL)", b |-> "", n |-> 6],
      [fn |-> "bit", a |-> "A", b |-> "", n |-> 6],
      [fn |-> "bit", a |-> "B", b |-> "", n |-> 7],
      [fn |-> "bit", a |-> "C", b |-> "", n |-> 7],
      [fn |-> "bit", a |-> "D", b |-> "", n |-> 7],
      [fn |-> "bit", a |-> "E", b |-> "", n |-> 7],
      [fn |-> "bit", a |-> "H", b |-> "", n |-> 7],
      [fn |-> "bit", a |-> "L", b |-> "", n |-> 7],
      [fn |-> "bit", a |-> "(HL)", b |-> "", n |-> 7],
      [fn |-> "bit", a |-> "A", b |-> "", n |-> 7],
      [fn |-> "res", a |-> "B", b |-> "", n |-> 0],
      [fn |-> "res", a |-> "C", b |-> "", n |-> 0],
      [fn |-> "res", a |-> "D", b |-> "", n |-> 0],
      [fn |-> "res", a |-> "E", b |-> "", n |-> 0],
      [fn |-> "res", a |-> "H", b |-> "", n |-> 0],
      [fn |-> "res", a |-> "L", b |-> "", n |-> 0],
      [fn |-> "res", a |-> "(HL)", b |-> "", n |-> 0],
      [fn |-> "res", a |-> "A", b |-> "", n |-> 0],
      [fn |-> "res", a |-> "B", b |-> "", n |-> 1],
      [fn |-> "res", a |-> "C", b |-> "", n |-> 1],
      [fn |-> "res", a |-> "D", b |-> "", n |-> 1],
      [fn |-> "res", a |-> "E", b |-> "", n |-> 1],
      [fn |-> "res", a |-> "H", b |-> "", n |-> 1],
      [fn |-> "res", a |-> "L", b |-> "", n |-> 1],
      [fn |-> "res", a |-> "(HL)", b |-> "", n |-> 1],
      [fn |-> "res", a |-> "A", b |-> "", n |-> 1],
      [fn |-> "res", a |-> "B", b |-> "", n |-> 2],
      [fn |-> "res", a |-> "C", b |-> "", n |-> 2],
      [fn |-> "res", a |-> "D", b |-> "", n |-> 2],
      [fn |-> "res", a |-> "E", b |-> "", n |-> 2],
      [fn |-> "res", a |-> "H", b |-> "", n |-> 2],
      [fn |-> "res", a |-> "L", b |-> "", n |-> 2],
      [fn |-> "res", a |-> "(HL)", b |-> "", n |-> 2],
      [fn |-> "res", a |-> "A", b |-> "", n |-> 2],
      [fn |-> "res", a |-> "B", b |-> "", n |-> 3],
      [fn |-> "res", a |-> "C", b |-> "", n |-> 3],
      [fn |-> "res", a |-> "D", b |-> "", n |-> 3],
      [fn |-> "res", a |-> "E", b |-> "", n |-> 3],
      [fn |-> "res", a |-> "H", b |-> "", n |-> 3],
      [fn |-> "res", a |-> "L", b |-> "", n |-> 3],
      [fn |-> "res", a |-> "(HL)", b |-> "", n |-> 3],
      [fn |-> "res", a |-> "A", b |-> "", n |-> 3],
      [fn |-> "res", a |-> "B", b |-> "", n |-> 4],
      [fn |-> "res", a |-> "C", b |-> "", n |-> 4],
      [fn |-> "res", a |-> "D", b |-> "", n |-> 4],
      [fn |-> "res", a |-> "E", b |-> "", n |-> 4],
      [fn |-> "res", a |-> "H", b |-> "", n |-> 4],
      [fn |-> "res", a |-> "L", b |-> "", n |-> 4],
      [fn |-> "res", a |-> "(HL)", b |-> "", n |-> 4],
      [fn |-> "res", a |-> "A", b |-> "", n |-> 4],
      [fn |-> "res", a |-> "B", b |-> "", n |-> 5],
      [fn |-> "res", a |-> "C", b |-> "", n |-> 5],
      [fn |-> "res", a |-> "D", b |-> "", n |-> 5],
      [fn |-> "res", a |-> "E", b |-> "", n |-> 5],
      [fn |-> "res", a |-> "H", b |-> "", n |-> 5],
      [fn |-> "res", a |-> "L", b |-> "", n |-> 5],
      [fn |-> "res", a |-> "(HL)", b |-> "", n |-> 5],
      [fn |-> "res", a |-> "A", b |-> "", n |-> 5],
      [fn |-> "res", a |-> "B", b |-> "", n |-> 6],
      [fn |-> "res", a |-> "C", b |-> "", n |-> 6],
      [fn |-> "res", a |-> "D", b |-> "", n |-> 6],
      [fn |-> "res", a |-> "E", b |-> "", n |-> 6],
      [fn |-> "res", a |-> "H", b |-> "", n |-> 6],
      [fn |-> "res", a |-> "L", b |-> "", n |-> 6],
      [fn |-> "res", a |-> "(HL)", b |-> "", n |-> 6],
      [fn |-> "res", a |-> "A", b |-> "", n |-> 6],
      [fn |-> "res", a |-> "B", b |-> "", n |-> 7],
      [fn |-> "res", a |-> "C", b |-> "", n |-> 7],
      [fn |-> "res", a |-> "D", b |-> "", n |-> 7],
      [fn |-> "res", a |-> "E", b |-> "", n |-> 7],
      [fn |-> "res", a |-> "H", b |-> "", n |-> 7],
      [fn |-> "res", a |-> "L", b |-> "", n |-> 7],
      [fn |-> "res", a |-> "(HL)", b |-> "", n |-> 7],
      [fn |-> "res", a |-> "A", b |-> "", n |-> 7],
      [fn |-> "set", a |-> "B", b |-> "", n |-> 0],
      [fn |-> "set", a |-> "C", b |-> "", n |-> 0],
      [fn |-> "set", a |-> "D", b |-> "", n |-> 0],
      [fn |-> "set", a |-> "E", b |-> "", n |-> 0],
      [fn |-> "set", a |-> "H", b |-> "", n |-> 0],
      [fn |-> "set", a |-> "L", b |-> "", n |-> 0],
      [fn |-> "set", a |-> "(HL)", b |-> "", n |-> 0],
      [fn |-> "set", a |-> "A", b |-> "", n |-> 0],
      [fn |-> "set", a |-> "B", b |-> "", n |-> 1],
      [fn |-> "set", a |-> "C", b |-> "", n |-> 1],
      [fn |-> "set", a |-> "D", b |-> "", n |-> 1],
      [fn |-> "set", a |-> "E", b |-> "", n |-> 1],
      [fn |-> "set", a |-> "H", b |-> "", n |-> 1],
      [fn |-> "set", a |-> "L", b |-> "", n |-> 1],
      [fn |-> "set", a |-> "(HL)", b |-> "", n |-> 1],
      [fn |-> "set", a |-> "A", b |-> "", n |-> 1],
      [fn |-> "set", a |-> "B", b |-> "", n |-> 2],
      [fn |-> "set", a |-> "C", b |-> "", n |-> 2],
      [fn |-> "set", a |-> "D", b |-> "", n |-> 2],
      [fn |-> "set", a |-> "E", b |-> "", n |-> 2],
      [fn |-> "set", a |-> "H", b |-> "", n |-> 2],
      [fn |-> "set", a |-> "L", b |-> "", n |-> 2],
      [fn |-> "set", a |-> "(HL)", b |-> "", n |-> 2],
      [fn |-> "set", a |-> "A", b |-> "", n |-> 2],
      [fn |-> "set", a |-> "B", b |-> "", n |-> 3],
      [fn |-> "set", a |-> "C", b |-> "", n |-> 3],
      [fn |-> "set", a |-> "D", b |-> "", n |-> 3],
      [fn |-> "set", a |-> "E", b |-> "", n |-> 3],
      [fn |-> "set", a |-> "H", b |-> "", n |-> 3],
      [fn |-> "set", a |-> "L", b |-> "", n |-> 3],
      [fn |-> "set", a |-> "(HL)", b |-> "", n |-> 3],
      [fn |-> "set", a |-> "A", b |-> "", n |-> 3],
      [fn |-> "set", a |-> "B", b |-> "", n |-> 4],
      [fn |-> "set", a |-> "C", b |-> "", n |-> 4],
      [fn |-> "set", a |-> "D", b |-> "", n |-> 4],
      [fn |-> "set", a |-> "E", b |-> "", n |-> 4],
      [fn |-> "set", a |-> "H", b |-> "", n |-> 4],
      [fn |-> "set", a |-> "L", b |-> "", n |-> 4],
      [fn |-> "set", a |-> "(HL)", b |-> "", n |-> 4],
      [fn |-> "set", a |-> "A", b |-> "", n |-> 4],
      [fn |-> "set", a |-> "B", b |-> "", n |-> 5],
      [fn |-> "set", a |-> "C", b |-> "", n |-> 5],
      [fn |-> "set", a |-> "D", b |-> "", n |-> 5],
      [fn |-> "set", a |-> "E", b |-> "", n |-> 5],
      [fn |-> "set", a |-> "H", b |-> "", n |-> 5],
      [fn |-> "set", a |-> "L", b |-> "", n |-> 5],
      [fn |-> "set", a |-> "(HL)", b |-> "", n |-> 5],
      [fn |-> "set", a |-> "A", b |-> "", n |-> 5],
      [fn |-> "set", a |-> "B", b |-> "", n |-> 6],
      [fn |-> "set", a |-> "C", b |-> "", n |-> 6],
      [fn |-> "set", a |-> "D", b |-> "", n |-> 6],
      [fn |-> "set", a |-> "E", b |-> "", n |-> 6],
      [fn |-> "set", a |-> "H", b |-> "", n |-> 6],
      [fn |-> "set", a |-> "L", b |-> "", n |-> 6],
      [fn |-> "set", a |-> "(HL)", b |-> "", n |-> 6],
      [fn |-> "set", a |-> "A", b |-> "", n |-> 6],
      [fn |-> "set", a |-> "B", b |-> "", n |-> 7],
      [fn |-> "set", a |-> "C", b |-> "", n |-> 7],
      [fn |-> "set", a |-> "D", b |-> "", n |-> 7],
      [fn |-> "set", a |-> "E", b |-> "", n |-> 7],
      [fn |-> "set", a |-> "H", b |-> "", n |-> 7],
      [fn |-> "set", a |-> "L", b |-> "", n |-> 7],
      [fn |-> "set", a |-> "(HL)", b |-> "", n |-> 7],
      [fn |-> "set", a |-> "A", b |-> "", n |-> 7] >>

PrimaryTable ==
    << [fn |-> "nop", a |-> "", b |-> "", n |-> 0],
      [fn |-> "ld16", a |-> "BC", b |-> "NextU16", n |-> 0],
      [fn |-> "ld", a |-> "(BC)", b |-> "A", n |-> 0],
      [fn |-> "inc16", a |-> "BC", b |-> "", n |-> 0],
      [fn |-> "inc", a |-> "B", b |-> "", n |-> 0],
      [fn |-> "dec", a |-> "B", b |-> "", n |-> 0],
      [fn |-> "ld", a |-> "B", b |-> "NextU8", n |-> 0],
      [fn |-> "rlc", a |-> "A", b |-> "", n |-> 0],
      [fn |-> "ld16", a |-> "(NextU16)", b |-> "SP", n |-> 0],
      [fn |-> "add16_hl", a |-> "BC", b |-> "", n |-> 0],
      [fn |-> "ld", a |-> "A", b |-> "(BC)", n |-> 0],
      [fn |-> "dec16", a |-> "BC", b |-> "", n |-> 0],
      [fn |-> "inc", a |-> "C", b |-> "", n |-> 0],
      [fn |-> "dec", a |-> "C", b |-> "", n |-> 0],
      [fn |-> "ld", a |-> "C", b |-> "NextU8", n |-> 0],
      [fn |-> "rrc", a |-> "A", b |-> "", n |-> 0],
      [fn |-> "stop", a |-> "", b |-> "", n |-> 0],
      [fn |-> "ld16", a |-> "DE", b |-> "NextU16", n |-> 0],
      [fn |-> "ld", a |-> "(DE)", b |-> "A", n |-> 0],
      [fn |-> "inc16", a |-> "DE", b |-> "", n |-> 0],
      [fn |-> "inc", a |-> "D", b |-> "", n |-> 0],
      [fn |-> "dec", a |-> "D", b |-> "", n |-> 0],
      [fn |-> "ld", a |-> "D", b |-> "NextU8", n |-> 0],
      [fn |-> "rl", a |-> "A", b |-> "", n |-> 0],
      [fn |-> "jr", a |-> "", b |-> "", n |-> 0],
      [fn |-> "add16_hl", a |-> "DE", b |-> "", n |-> 0],
      [fn |-> "ld", a |-> "A", b |-> "(DE)", n |-> 0],
      [fn |-> "dec16", a |-> "DE", b |-> "", n |-> 0],
      [fn |-> "inc", a |-> "E", b |-> "", n |-> 0],
      [fn |-> "dec", a |-> "E", b |-> "", n |-> 0],
      [fn |-> "ld", a |-> "E", b |-> "NextU8", n |-> 0],
      [fn |-> "rr", a |-> "A", b |-> "", n |-> 0],
      [fn |-> "jr_conditional", a |-> "NOTZERO", b |-> "", n |-> 0],
      [fn |-> "ld16", a |-> "HL", b |-> "NextU16", n |-> 0],
      [fn |-> "ld", a |-> "(HLI)", b |-> "A", n |-> 0],
      [fn |-> "inc16", a |-> "HL", b |-> "", n |-> 0],
      [fn |-> "inc", a |-> "H", b |-> "", n |-> 0],
      [fn |-> "dec", a |-> "H", b |-> "", n |-> 0],
      [fn |-> "ld", a |-> "H", b |-> "NextU8", n |-> 0],
      [fn |-> "daa", a |-> "", b |-> "", n |-> 0],
      [fn |-> "jr_conditional", a |-> "ZERO", b |-> "", n |-> 0],
      [fn |-> "add16_hl", a |-> "HL", b |-> "", n |-> 0],
      [fn |-> "ld", a |-> "A", b |-> "(HLI)", n |-> 0],
      [fn |-> "dec16", a |-> "HL", b |-> "", n |-> 0],
      [fn |-> "inc", a |-> "L", b |-> "", n |-> 0],
      [fn |-> "dec", a |-> "L", b |-> "", n |-> 0],
      [fn |-> "ld", a |-> "L", b |-> "NextU8", n |-> 0],
      [fn |-> "cpl", a |-> "", b |-> "", n |-> 0],
      [fn |-> "jr_conditional", a |-> "NOTCARRY", b |-> "", n |-> 0],
      [fn |-> "ld16", a |-> "SP", b |-> "NextU16", n |-> 0],
      [fn |-> "ld", a |-> "(HLD)", b |-> "A", n |-> 0],
      [fn |-> "inc16", a |-> "SP", b |-> "", n |-> 0],
      [fn |-> "inc", a |-> "(HL)", b |-> "", n |-> 0],
      [fn |-> "dec", a |-> "(HL)", b |-> "", n |-> 0],
      [fn |-> "ld", a |-> "(HL)", b |-> "NextU8", n |-> 0],
      [fn |-> "scf", a |-> "", b |-> "", n |-> 0],
      [fn |-> "jr_conditional", a |-> "CARRY", b |-> "", n |-> 0],
      [fn |-> "add16_hl", a |-> "SP", b |-> "", n |-> 0],
      [fn |-> "ld", a |-> "A", b |-> "(HLD)", n |-> 0],
      [fn |-> "dec16", a |-> "SP", b |-> "", n |-> 0],
      [fn |-> "inc", a |-> "A", b |-> "", n |-> 0],
      [fn |-> "dec", a |-> "A", b |-> "", n |-> 0],
      [fn |-> "ld", a |-> "A", b |-> "NextU8", n |-> 0],
      [fn |-> "ccf", a |-> "", b |-> "", n |-> 0],
      [fn |-> "ld", a |-> "B", b |-> "B", n |-> 0],
      [fn |-> "ld", a |-> "B", b |-> "C", n |-> 0],
      [fn |-> "ld", a |-> "B", b |-> "D", n |-> 0],
      [fn |-> "ld", a |-> "B", b |-> "E", n |-> 0],
      [fn |-> "ld", a |-> "B", b |-> "H", n |-> 0],
      [fn |-> "ld", a |-> "B", b |-> "L", n |-> 0],
      [fn |-> "ld", a |-> "B", b |-> "(HL)", n |-> 0],
      [fn |-> "ld", a |-> "B", b |-> "A", n |-> 0],
      [fn |-> "ld", a |-> "C", b |-> "B", n |-> 0],
      [fn |-> "ld", a |-> "C", b |-> "C", n |-> 0],
      [fn |-> "ld", a |-> "C", b |-> "D", n |-> 0],
      [fn |-> "ld", a |-> "C", b |-> "E", n |-> 0],
      [fn |-> "ld", a |-> "C", b |-> "H", n |-> 0],
      [fn |-> "ld", a |-> "C", b |-> "L", n |-> 0],
      [fn |-> "ld", a |-> "C", b |-> "(HL)", n |-> 0],
      [fn |-> "ld", a |-> "C", b |-> "A", n |-> 0],
      [fn |-> "ld", a |-> "D", b |-> "B", n |-> 0],
      [fn |-> "ld", a |-> "D", b |-> "C", n |-> 0],
      [fn |-> "ld", a |-> "D", b |-> "D", n |-> 0],
      [fn |-> "ld", a |-> "D", b |-> "E", n |-> 0],
      [fn |-> "ld", a |-> "D", b |-> "H", n |-> 0],
      [fn |-> "ld", a |-> "D", b |-> "L", n |-> 0],
      [fn |-> "ld", a |-> "D", b |-> "(HL)", n |-> 0],
      [fn |-> "ld", a |-> "D", b |-> "A", n |-> 0],
      [fn |-> "ld", a |-> "E", b |-> "B", n |-> 0],
      [fn |-> "ld", a |-> "E", b |-> "C", n |-> 0],
      [fn |-> "ld", a |-> "E", b |-> "D", n |-> 0],
      [fn |-> "ld", a |-> "E", b |-> "E", n |-> 0],
      [fn |-> "ld", a |-> "E", b |-> "H", n |-> 0],
      [fn |-> "ld", a |-> "E", b |-> "L", n |-> 0],
      [fn |-> "ld", a |-> "E", b |-> "(HL)", n |-> 0],
      [fn |-> "ld", a |-> "E", b |-> "A", n |-> 0],
      [fn |-> "ld", a |-> "H", b |-> "B", n |-> 0],
      [fn |-> "ld", a |-> "H", b |-> "C", n |-> 0],
      [fn |-> "ld", a |-> "H", b |-> "D", n |-> 0],
      [fn |-> "ld", a |-> "H", b |-> "E", n |-> 0],
      [fn |-> "ld", a |-> "H", b |-> "H", n |-> 0],
      [fn |-> "ld", a |-> "H", b |-> "L", n |-> 0],
      [fn |-> "ld", a |-> "H", b |-> "(HL)", n |-> 0],
      [fn |-> "ld", a |-> "H", b |-> "A", n |-> 0],
      [fn |-> "ld", a |-> "L", b |-> "B", n |-> 0],
      [fn |-> "ld", a |-> "L", b |-> "C", n |-> 0],
      [fn |-> "ld", a |-> "L", b |-> "D", n |-> 0],
      [fn |-> "ld", a |-> "L", b |-> "E", n |-> 0],
      [fn |-> "ld", a |-> "L", b |-> "H", n |-> 0],
      [fn |-> "ld", a |-> "L", b |-> "L", n |-> 0],
      [fn |-> "ld", a |-> "L", b |-> "(HL)", n |-> 0],
      [fn |-> "ld", a |-> "L", b |-> "A", n |-> 0],
      [fn |-> "ld", a |-> "(HL)", b |-> "B", n |-> 0],
      [fn |-> "ld", a |-> "(HL)", b |-> "C", n |-> 0],
      [fn |-> "ld", a |-> "(HL)", b |-> "D", n |-> 0],
      [fn |-> "ld", a |-> "(HL)", b |-> "E", n |-> 0],
      [fn |-> "ld", a |-> "(HL)", b |-> "H", n |-> 0],
      [fn |-> "ld", a |-> "(HL)", b |-> "L", n |-> 0],
      [fn |-> "halt", a |-> "", b |-> "", n |-> 0],
      [fn |-> "ld", a |-> "(HL)", b |-> "A", n |-> 0],
      [fn |-> "ld", a |-> "A", b |-> "B", n |-> 0],
      [fn |-> "ld", a |-> "A", b |-> "C", n |-> 0],
      [fn |-> "ld", a |-> "A", b |-> "D", n |-> 0],
      [fn |-> "ld", a |-> "A", b |-> "E", n |-> 0],
      [fn |-> "ld", a |-> "A", b |-> "H", n |-> 0],
      [fn |-> "ld", a |-> "A", b |-> "L", n |-> 0],
      [fn |-> "ld", a |-> "A", b |-> "(HL)", n |-> 0],
      [fn |-> "ld", a |-> "A", b |-> "A", n |-> 0],
      [fn |-> "add", a |-> "B", b |-> "", n |-> 0],
      [fn |-> "add", a |-> "C", b |-> "", n |-> 0],
      [fn |-> "add", a |-> "D", b |-> "", n |-> 0],
      [fn |-> "add", a |-> "E", b |-> "", n |-> 0],
      [fn |-> "add", a |-> "H", b |-> "", n |-> 0],
      [fn |-> "add", a |-> "L", b |-> "", n |-> 0],
      [fn |-> "add", a |-> "(HL)", b |-> "", n |-> 0],
      [fn |-> "add", a |-> "A", b |-> "", n |-> 0],
      [fn |-> "adc", a |-> "B", b |-> "", n |-> 0],
      [fn |-> "adc", a |-> "C", b |-> "", n |-> 0],
      [fn |-> "adc", a |-> "D", b |-> "", n |-> 0],
      [fn |-> "adc", a |-> "E", b |-> "", n |-> 0],
      [fn |-> "adc", a |-> "H", b |-> "", n |-> 0],
      [fn |-> "adc", a |-> "L", b |-> "", n |-> 0],
      [fn |-> "adc", a |-> "(HL)", b |-> "", n |-> 0],
      [fn |-> "adc", a |-> "A", b |-> "", n |-> 0],
      [fn |-> "sub", a |-> "B", b |-> "", n |-> 0],
      [fn |-> "sub", a |-> "C", b |-> "", n |-> 0],
      [fn |-> "sub", a |-> "D", b |-> "", n |-> 0],
      [fn |-> "sub", a |-> "E", b |-> "", n |-> 0],
      [fn |-> "sub", a |-> "H", b |-> "", n |-> 0],
      [fn |-> "sub", a |-> "L", b |-> "", n |-> 0],
      [fn |-> "sub", a |-> "(HL)", b |-> "", n |-> 0],
      [fn |-> "sub", a |-> "A", b |-> "", n |-> 0],
      [fn |-> "sbc", a |-> "B", b |-> "", n |-> 0],
      [fn |-> "sbc", a |-> "C", b |-> "", n |-> 0],
      [fn |-> "sbc", a |-> "D", b |-> "", n |-> 0],
      [fn |-> "sbc", a |-> "E", b |-> "", n |-> 0],
      [fn |-> "sbc", a |-> "H", b |-> "", n |-> 0],
      [fn |-> "sbc", a |-> "L", b |-> "", n |-> 0],
      [fn |-> "sbc", a |-> "(HL)", b |-> "", n |-> 0],
      [fn |-> "sbc", a |-> "A", b |-> "", n |-> 0],
      [fn |-> "and", a |-> "B", b |-> "", n |-> 0],
      [fn |-> "and", a |-> "C", b |-> "", n |-> 0],
      [fn |-> "and", a |-> "D", b |-> "", n |-> 0],
      [fn |-> "and", a |-> "E", b |-> "", n |-> 0],
      [fn |-> "and", a |-> "H", b |-> "", n |-> 0],
      [fn |-> "and", a |-> "L", b |-> "", n |-> 0],
      [fn |-> "and", a |-> "(HL)", b |-> "", n |-> 0],
      [fn |-> "and", a |-> "A", b |-> "", n |-> 0],
      [fn |-> "xor", a |-> "B", b |-> "", n |-> 0],
      [fn |-> "xor", a |-> "C", b |-> "", n |-> 0],
      [fn |-> "xor", a |-> "D", b |-> "", n |-> 0],
      [fn |-> "xor", a |-> "E", b |-> "", n |-> 0],
      [fn |-> "xor", a |-> "H", b |-> "", n |-> 0],
      [fn |-> "xor", a |-> "L", b |-> "", n |-> 0],
      [fn |-> "xor", a |-> "(HL)", b |-> "", n |-> 0],
      [fn |-> "xor", a |-> "A", b |-> "", n |-> 0],
      [fn |-> "or", a |-> "B", b |-> "", n |-> 0],
      [fn |-> "or", a |-> "C", b |-> "", n |-> 0],
      [fn |-> "or", a |-> "D", b |-> "", n |-> 0],
      [fn |-> "or", a |-> "E", b |-> "", n |-> 0],
      [fn |-> "or", a |-> "H", b |-> "", n |-> 0],
      [fn |-> "or", a |-> "L", b |-> "", n |-> 0],
      [fn |-> "or", a |-> "(HL)", b |-> "", n |-> 0],
      [fn |-> "or", a |-> "A", b |-> "", n |-> 0],
      [fn |-> "cp", a |-> "B", b |-> "", n |-> 0],
      [fn |-> "cp", a |-> "C", b |-> "", n |-> 0],
      [fn |-> "cp", a |-> "D", b |-> "", n |-> 0],
      [fn |-> "cp", a |-> "E", b |-> "", n |-> 0],
      [fn |-> "cp", a |-> "H", b |-> "", n |-> 0],
      [fn |-> "cp", a |-> "L", b |-> "", n |-> 0],
      [fn |-> "cp", a |-> "(HL)", b |-> "", n |-> 0],
      [fn |-> "cp", a |-> "A", b |-> "", n |-> 0],
      [fn |-> "ret_conditional", a |-> "NOTZERO", b |-> "", n |-> 0],
      [fn |-> "pop16", a |-> "BC", b |-> "", n |-> 0],
      [fn |-> "jp_conditional", a |-> "NOTZERO", b |-> "", n |-> 0],
      [fn |-> "jp", a |-> "NextU16", b |-> "", n |-> 0],
      [fn |-> "call_conditional", a |-> "NOTZERO", b |-> "", n |-> 0],
      [fn |-> "push16", a |-> "BC", b |-> "", n |-> 0],
      [fn |-> "add", a |-> "NextU8", b |-> "", n |-> 0],
      [fn |-> "rst", a |-> "", b |-> "", n |-> 0],
      [fn |-> "ret_conditional", a |-> "ZERO", b |-> "", n |-> 0],
      [fn |-> "ret", a |-> "", b |-> "", n |-> 0],
      [fn |-> "jp_conditional", a |-> "ZERO", b |-> "", n |-> 0],
      [fn |-> "unrecognized", a |-> "", b |-> "", n |-> 0],
      [fn |-> "call_conditional", a |-> "ZERO", b |-> "", n |-> 0],
      [fn |-> "call", a |-> "", b |-> "", n |-> 0],
      [fn |-> "adc", a |-> "NextU8", b |-> "", n |-> 0],
      [fn |-> "rst", a |-> "", b |-> "", n |-> 8],
      [fn |-> "ret_conditional", a |-> "NOTCARRY", b |-> "", n |-> 0],
      [fn |-> "pop16", a |-> "DE", b |-> "", n |-> 0],
      [fn |-> "jp_conditional", a |-> "NOTCARRY", b |-> "", n |-> 0],
      [fn |-> "unrecognized", a |-> "", b |-> "", n |-> 0],
      [fn |-> "call_conditional", a |-> "NOTCARRY", b |-> "", n |-> 0],
      [fn |-> "push16", a |-> "DE", b |-> "", n |-> 0],
      [fn |-> "sub", a |-> "NextU8", b |-> "", n |-> 0],
      [fn |-> "rst", a |-> "", b |-> "", n |-> 16],
      [fn |-> "ret_conditional", a |-> "CARRY", b |-> "", n |-> 0],
      [fn |-> "reti", a |-> "", b |-> "", n |-> 0],
      [fn |-> "jp_conditional", a |-> "CARRY", b |-> "", n |-> 0],
      [fn |-> "unrecognized", a |-> "", b |-> "", n |-> 0],
      [fn |-> "call_conditional", a |-> "CARRY", b |-> "", n |-> 0],
      [fn |-> "unrecognized", a |-> "", b |-> "", n |-> 0],
      [fn |-> "sbc", a |-> "NextU8", b |-> "", n |-> 0],
      [fn |-> "rst", a |-> "", b |-> "", n |-> 24],
      [fn |-> "ld", a |-> "(HighRAM)", b |-> "A", n |-> 0],
      [fn |-> "pop16", a |-> "HL", b |-> "", n |-> 0],
      [fn |-> "ld", a |-> "(HighRAMC)", b |-> "A", n |-> 0],
      [fn |-> "unrecognized", a |-> "", b |-> "", n |-> 0],
      [fn |-> "unrecognized", a |-> "", b |-> "", n |-> 0],
      [fn |-> "push16", a |-> "HL", b |-> "", n |-> 0],
      [fn |-> "and", a |-> "NextU8", b |-> "", n |-> 0],
      [fn |-> "rst", a |-> "", b |-> "", n |-> 32],
      [fn |-> "add16_sp", a |-> "", b |-> "", n |-> 0],
      [fn |-> "jp_hl", a |-> "HL", b |-> "", n |-> 0],
      [fn |-> "ld", a |-> "(NextU16)", b |-> "A", n |-> 0],
      [fn |-> "unrecognized", a |-> "", b |-> "", n |-> 0],
      [fn |-> "unrecognized", a |-> "", b |-> "", n |-> 0],
      [fn |-> "unrecognized", a |-> "", b |-> "", n |-> 0],
      [fn |-> "xor", a |-> "NextU8", b |-> "", n |-> 0],
      [fn |-> "rst", a |-> "", b |-> "", n |-> 40],
      [fn |-> "ld", a |-> "A", b |-> "(HighRAM)", n |-> 0],
      [fn |-> "pop16", a |-> "AF", b |-> "", n |-> 0],
      [fn |-> "ld", a |-> "A", b |-> "(HighRAMC)", n |-> 0],
      [fn |-> "di", a |-> "", b |-> "", n |-> 0],
      [fn |-> "unrecognized", a |-> "", b |-> "", n |-> 0],
      [fn |-> "push16", a |-> "AF", b |-> "", n |-> 0],
      [fn |-> "or", a |-> "NextU8", b |-> "", n |-> 0],
      [fn |-> "rst", a |-> "", b |-> "", n |-> 48],
      [fn |-> "ld16_sp_n", a |-> "", b |-> "", n |-> 0],
      [fn |-> "ld16", a |-> "SP", b |-> "HL", n |-> 0],
      [fn |-> "ld", a |-> "A", b |-> "(NextU16)", n |-> 0],
      [fn |-> "ei", a |-> "", b |-> "", n |-> 0],
      [fn |-> "unrecognized", a |-> "", b |-> "", n |-> 0],
      [fn |-> "unrecognized", a |-> "", b |-> "", n |-> 0],
      [fn |-> "cp", a |-> "NextU8", b |-> "", n |-> 0],
      [fn |-> "rst", a |-> "", b |-> "", n |-> 56] >>

(***************************************************************************)
(* cpu.rs: CPU::step                                                       *)
(***************************************************************************)
\* the body of one match arm of CPU::step
exec(s, e) ==
    CASE e.fn = "nop" -> s
      [] e.fn = "ld" -> ld(s, e.a, e.b)
      [] e.fn = "add" -> add(s, e.a)
      [] e.fn = "adc" -> adc(s, e.a)
      [] e.fn = "sub" -> sub(s, e.a)
      [] e.fn = "sbc" -> sbc(s, e.a)
      [] e.fn = "and" -> and(s, e.a)
      [] e.fn = "or" -> or(s, e.a)
      [] e.fn = "xor" -> xor(s, e.a)
      [] e.fn = "cp" -> cp(s, e.a)
      [] e.fn = "inc" -> inc(s, e.a)
      [] e.fn = "dec" -> dec(s, e.a)
      [] e.fn = "daa" -> daa(s)
      [] e.fn = "cpl" -> cpl(s)
      [] e.fn = "ccf" -> ccf(s)
      [] e.fn = "scf" -> scf(s)
      [] e.fn = "halt" -> halt(s)
      [] e.fn = "stop" -> stop(s)
      [] e.fn = "di" -> di(s)
      [] e.fn = "ei" -> ei(s)
      [] e.fn = "rlc" -> rlc(s, e.a, e.n = 1)
      [] e.fn = "rl" -> rl(s, e.a, e.n = 1)
      [] e.fn = "rrc" -> rrc(s, e.a, e.n = 1)
      [] e.fn = "rr" -> rr(s, e.a, e.n = 1)
      [] e.fn = "sla" -> sla(s, e.a)
      [] e.fn = "sra" -> sra(s, e.a)
      [] e.fn = "srl" -> srl(s, e.a)
      [] e.fn = "swap" -> swap(s, e.a)
      [] e.fn = "bit" -> bit(s, e.n, e.a)
      [] e.fn = "set" -> set(s, e.n, e.a)
      [] e.fn = "res" -> res(s, e.n, e.a)
      [] e.fn = "jp" -> jp(s, e.a)
      [] e.fn = "jp_hl" -> jp_hl(s, e.a)
      [] e.fn = "jp_conditional" -> jp_conditional(s, e.a)
      [] e.fn = "jr" -> jr(s)
      [] e.fn = "jr_conditional" -> jr_conditional(s, e.a)
      [] e.fn = "call" -> call(s)
      [] e.fn = "call_conditional" -> call_conditional(s, e.a)
      [] e.fn = "rst" -> rst(s, e.n)
      [] e.fn = "ret" -> ret(s)
      [] e.fn = "ret_conditional" -> ret_conditional(s, e.a)
      [] e.fn = "reti" -> reti(s)
      [] e.fn = "ld16" -> ld16(s, e.a, e.b)
      [] e.fn = "ld16_sp_n" -> ld16_sp_n(s)
      [] e.fn = "push16" -> push16(s, e.a)
      [] e.fn = "pop16" -> pop16(s, e.a)
      [] e.fn = "inc16" -> inc16(s, e.a)
      [] e.fn = "dec16" -> dec16(s, e.a)
      [] e.fn = "add16_hl" -> add16_hl(s, e.a)
      [] e.fn = "add16_sp" -> add16_sp(s)

\* the vector of each interrupt
\* the vectors with those of Timer and Serial exchanged
vector_exchanged(interrupt) ==
    CASE interrupt = VBlank -> 64
      [] interrupt = LCDC -> 72
      [] interrupt = Timer -> 88
      [] interrupt = SerialIOComplete -> 80
      [] interrupt = Joypad -> 96

vector(interrupt) ==
    CASE interrupt = VBlank -> 64
      [] interrupt = LCDC -> 72
      [] interrupt = Timer -> 80
      [] interrupt = SerialIOComplete -> 88
      [] interrupt = Joypad -> 96

\* CPU::handle_interrupt: FromPrimitive::from_u32 is None for a position
\* that is no Interrupt, and the match panics
handle_interrupt(s) ==
    LET given(interrupt) ==
            IF interrupt \notin Interrupts THEN [s EXCEPT !.abort = TRUE]
            ELSE [call_address([s EXCEPT !.ih = set_flag(@, BitAnd(@.flag, Not8(2 ^ interrupt))),
                                         !.interrupt_state = "Disabled"],
                               vector(interrupt))
                  EXCEPT !.halted = FALSE]
    IN  given(trailing_zeros(get_enabled_flags(s.ih)))

Ok == [tag |-> "Ok", args |-> {}]
Panic == [tag |-> "panic", args |-> {}]
\* Err(format!("unrecognized opcode {:#04x}", op)): what the message carries
Err_unrecognized(op) == [tag |-> "Err", args |-> {[field |-> "opcode", value |-> op]}]

StepOut(s, returned, kind, op, cb, at) ==
    [s |-> s, ret |-> returned, kind |-> kind, op |-> op, cb |-> cb, at |-> at]

\* CPU::step: the machine after the step, what the step returned, and, for
\* the history, what the step did (kind), the opcode it executed and the
\* address the opcode was fetched from
CPU_step(s) ==
    LET entry(op, cb) == IF cb THEN CBTable[op + 1] ELSE PrimaryTable[op + 1]
        \* the match on the opcode `fetched.v`, read at `at`
        dispatch(fetched, cb, at) ==
            IF entry(fetched.v, cb).fn = "unrecognized"
            THEN StepOut(fetched.s, Err_unrecognized(fetched.v), "error", fetched.v, cb, at)
            ELSE StepOut(exec(fetched.s, entry(fetched.v, cb)), Ok, "exec", fetched.v, cb, at)
        \* let op = mmu.mmu_read_u8(self.r.pc); self.r.pc = self.r.pc.wrapping_add(1)
        fetch(s0) ==
            LET given(x) == [s |-> [x.s EXCEPT !.r.pc = wrapping_add16(@, 1)], v |-> x.v]
            IN  given(mmu_read_u8(s0, s0.r.pc))
        prefixed(first) ==
            IF first.v = 203 THEN dispatch(fetch(first.s), TRUE, first.s.r.pc)
            ELSE dispatch(first, FALSE, s.r.pc)
        given(s0, interrupt) ==
            IF interrupt THEN StepOut(handle_interrupt(s0), Ok, "interrupt", 0, FALSE, s.r.pc)
            ELSE IF s0.halted
            THEN IF get_enabled_flags(s0.ih) # 0
                 THEN StepOut([s0 EXCEPT !.halted = FALSE], Ok, "unhalt", 0, FALSE, s.r.pc)
                 ELSE StepOut(mmu_spin(s0), Ok, "spin", 0, FALSE, s.r.pc)
            ELSE prefixed(fetch(s0))
    IN  given(IF s.interrupt_state = "Enabling"
              THEN [s EXCEPT !.interrupt_state = "Enabled"] ELSE s,
              s.interrupt_state = "Enabled" /\ get_enabled_flags(s.ih) # 0)

invoke(s, method) ==
    CASE method.fn = "step" -> CPU_step(s)
      [] method.fn = "read_u8" -> MMU_read_u8(s, method.addr)
      [] method.fn = "write_u8" -> MMU_write_u8(s, method.addr, method.value)
      [] method.fn = "spin" -> MMU_spin(s)

\* CPU::run_forever: loop { self.step(mmu)?; } goes on while step returns Ok
run_forever_continues(returned) == returned.tag = "Ok"

(***************************************************************************)
(* The machine as a state machine: one action per CPU::step of the run     *)
(* loop                                                                    *)
(***************************************************************************)
Machine ==
    [r |-> r, interrupt_state |-> interrupt_state, halted |-> halted, ih |-> ih,
     cycles |-> cycles, timer |-> timer, lcd |-> lcd, mem |-> mem, cart |-> cart,
     bus |-> <<>>, timer_steps |-> timer_steps, lcd_steps |-> lcd_steps,
     raised |-> 0, drawn |-> <<>>, abort |-> FALSE, overflow_checks |-> overflow_checks]

\* what the properties compare the state after a step with
Snapshot ==
    [r |-> r, interrupt_state |-> interrupt_state, halted |-> halted, ih |-> ih,
     cycles |-> cycles, timer |-> timer, lcd |-> lcd, mem |-> mem, cart |-> cart,
     timer_steps |-> timer_steps, lcd_steps |-> lcd_steps]

Remember(h, e) ==
    IF Len(h) < HistLen THEN Append(h, e) ELSE Append(Tail(h), e)

\* one iteration of the loop of CPU::run_forever, at most `bound` of them
StepUpTo(bound) ==
    /\ run_forever_continues(result)
    /\ nsteps < bound
    /\ LET given(out, returned) ==
           /\ r' = out.s.r
           /\ interrupt_state' = out.s.interrupt_state
           /\ halted' = out.s.halted
           /\ ih' = out.s.ih
           /\ cycles' = out.s.cycles
           /\ timer' = out.s.timer
           /\ lcd' = out.s.lcd
           /\ mem' = out.s.mem
           /\ cart' = out.s.cart
           /\ bus' = out.s.bus
           /\ timer_steps' = out.s.timer_steps
           /\ lcd_steps' = out.s.lcd_steps
           /\ raised' = out.s.raised
           /\ drawn' = out.s.drawn
           /\ result' = returned
           /\ pre' = Snapshot
           /\ hist' = Remember(hist, [kind |-> out.kind, op |-> out.op, cb |-> out.cb,
                                      at |-> out.at, before |-> interrupt_state,
                                      pending |-> get_enabled_flags(ih),
                                      state |-> out.s.interrupt_state,
                                      ret |-> returned.tag])
           /\ nsteps' = nsteps + 1
           /\ UNCHANGED <<start, overflow_checks, joypad>>
           stepped(out) == given(out, IF out.s.abort THEN Panic ELSE out.ret)
       IN  stepped(invoke(Machine, [fn |-> "step", addr |-> 0, value |-> 0]))

Step == StepUpTo(MaxSteps)

\* a cartridge without a memory bank controller whose 32 KiB ROM holds
\* `bytes` from 0x0100 on and zeros elsewhere, and no cartridge RAM
Program(bytes) == [k \in {255 + i : i \in 1..Len(bytes)} |-> bytes[k - 255]]

Cart(bytes) ==
    [mbc |-> "ROM", rom |-> Program(bytes), rom_len |-> 32768, ram |-> EmptyMap, ram_size |-> 0]

\* the parts of the machine as GameBoy::new leaves them
Fresh ==
    /\ cycles = 0
    /\ lcd = LCD_new
    /\ mem = Mem_new
    /\ bus = <<>>
    /\ timer_steps = 0
    /\ lcd_steps = 0
    /\ raised = 0
    /\ drawn = <<>>
    /\ result = Ok
    /\ hist = <<>>
    /\ nsteps = 0
    /\ joypad = Joypad_new

\* the programs of the main specification
Programs ==
    { <<0>>,                    \* NOP
      <<251, 0>>,               \* EI; NOP
      <<251, 243>>,             \* EI; DI
      <<251, 217>>,             \* EI; RETI
      <<251, 118>>,             \* EI; HALT
      <<251, 251>>,             \* EI; EI
      <<251, 211>>,             \* EI; 0xD3 (not bound)
      <<118>>,                  \* HALT
      <<211>>,                  \* 0xD3 (not bound)
      <<0, 237>>,               \* NOP; 0xED (not bound)
      <<203, 55>>,              \* SWAP A
      <<224, 70>>,              \* LDH (0x46),A: starts a DMA transfer
      <<62, 32, 224, 15>>,      \* LD A,0x20; LDH (0x0F),A
      <<250, 160, 254>>,        \* LD A,(0xFEA0): unusable range
      <<234, 0, 192>>,          \* LD (0xC000),A: system RAM
      <<205, 0, 2>>,            \* CALL 0x0200
      <<8, 255, 255>>,          \* LD (0xFFFF),SP
      <<0, 195, 80, 1>>,        \* NOP; JP 0x0150
      <<243, 0>>,               \* DI; NOP
      <<217>> }                 \* RETI

\* requested-flags and enabled-flags bytes: both registers store any byte
\* written through 0xFF0F and 0xFFFF
FlagSamples == {0, 1, 2, 4, 6, 16, 24, 32, 255}
EnableSamples == {0, 1, 6, 31, 32, 255}

\* the timer at rest, and enabled at the fastest rate one step before the
\* counter register overflows
TimerSamples ==
    { Timer_new,
      [divider |-> 0, counter |-> 12, tima |-> 255, modulo |-> 0, enabled |-> TRUE,
       clock |-> 1] }

Init ==
    /\ Fresh
    /\ r = Registers_new
    /\ interrupt_state \in {"Disabled", "Enabling", "Enabled"}
    \* HALT executes in a step that has already turned Enabling into Enabled,
    \* and a halted CPU executes neither EI nor RETI
    /\ halted \in IF interrupt_state = "Enabling" THEN {FALSE} ELSE BOOLEAN
    /\ \E flag \in FlagSamples, enable \in EnableSamples :
           ih = [flag |-> flag, enable |-> enable]
    /\ timer \in TimerSamples
    /\ \E bytes \in Programs : cart = Cart(bytes)
    /\ overflow_checks \in BOOLEAN
    /\ pre = Snapshot
    /\ start = Snapshot

Next == Step

Spec == Init /\ [][Next]_vars

(***************************************************************************)
(* The interrupt controller on its own: a peripheral signals an interrupt  *)
(***************************************************************************)
Signal ==
    /\ nsteps < MaxSignals
    /\ \E interrupt \in Interrupts :
           /\ ih' = set_interrupt(ih, interrupt)
           /\ hist' = Remember(hist, [kind |-> "set_interrupt", op |-> interrupt,
                                      cb |-> FALSE, at |-> 0, before |-> interrupt_state,
                                      pending |-> get_enabled_flags(ih),
                                      state |-> interrupt_state, ret |-> "Ok"])
    /\ pre' = Snapshot
    /\ nsteps' = nsteps + 1
    /\ UNCHANGED <<r, interrupt_state, halted, cycles, timer, lcd, mem, cart, bus,
                   timer_steps, lcd_steps, raised, drawn, result, start,
                   overflow_checks, joypad>>

InitIH ==
    /\ Fresh
    /\ r = Registers_new
    /\ interrupt_state = "Enabled"
    /\ halted = FALSE
    /\ \E flag \in Byte, enable \in EnableSamples : ih = [flag |-> flag, enable |-> enable]
    /\ timer = Timer_new
    /\ cart = Cart(<<0>>)
    /\ overflow_checks = FALSE
    /\ pre = Snapshot
    /\ start = Snapshot

NextIH == Signal

SpecIH == InitIH /\ [][NextIH]_vars

(***************************************************************************)
(* The 8-bit additions and subtractions on their own: one instruction on   *)
(* every accumulator value, with the operand in B or in the byte after the *)
(* opcode                                                                  *)
(***************************************************************************)
\* ADD A,B  ADC A,B  SUB B  SBC A,B  CP B
ALURegisterOps == {128, 136, 144, 152, 184}
\* ADD A,n  ADC A,n  SUB n  SBC A,n  CP n
ALUImmediateOps == {198, 206, 214, 222, 254}

OperandSamples == {0, 1, 14, 15, 16, 127, 128, 240, 254, 255}
FlagsSamples == {0, CARRY, ZERO + NEGATIVE + HALFCARRY, ZERO + NEGATIVE + HALFCARRY + CARRY}

InitALU ==
    /\ Fresh
    /\ \E a \in Byte, v \in OperandSamples, f \in FlagsSamples :
           \/ /\ r = [Registers_new EXCEPT !.a = a, !.b = v, !.f = f]
              /\ \E op \in ALURegisterOps : cart = Cart(<<op>>)
           \/ /\ r = [Registers_new EXCEPT !.a = a, !.f = f]
              /\ \E op \in ALUImmediateOps : cart = Cart(<<op, v>>)
    /\ interrupt_state = "Disabled"
    /\ halted = FALSE
    /\ ih = InterruptHandler_new
    /\ timer = Timer_new
    /\ overflow_checks \in BOOLEAN
    /\ pre = Snapshot
    /\ start = Snapshot

StepALU == StepUpTo(ALUSteps)

NextALU == StepALU

SpecALU == InitALU /\ [][NextALU]_vars

(***************************************************************************)
(* Instruction pairs and 16-bit instructions on sampled registers: an      *)
(* addition or subtraction of packed-BCD bytes followed by DAA, a PUSH     *)
(* followed by a POP with the stack pointer in every kind of memory,       *)
(* ADD HL,rr, and the calls, returns and jumps under each condition        *)
(***************************************************************************)
\* the packed-BCD bytes: both nibbles at most 9
BCDBytes == {16 * hi + lo : hi \in 0..9, lo \in 0..9}

\* bytes and words at the nibble, byte and word boundaries
ByteSamples == {0, 1, 15, 16, 18, 128, 171, 240, 254, 255}
WordSamples == {0, 1, 255, 256, 2047, 2048, 4095, 4096, 32767, 32768, 61440, 63488,
                65535}

\* stack pointers: high RAM (the reset value), work RAM, its echo, VRAM,
\* OAM, the top of the address space (the bytes at 0xFFFF and 0xFFFE), the
\* wrap-around (0x0000 and 0xFFFF), ROM, the unusable range, and the I/O
\* registers 0xFF01 (serial data) and 0xFF00 (joypad)
StackSamples == {65534, 53248, 57346, 32770, 65026, 0, 1, 16384, 65200, 65282}

\* CALL nn, CALL cc,nn, RST 08 and RST 38; RET, RETI, RET cc; JP cc,nn; JR n,
\* JR cc,n; ADD SP,n and LD HL,SP+n
BranchOps ==
    {205, 196, 204, 212, 220, 207, 255, 201, 217, 192, 200, 208, 216,
     194, 202, 210, 218, 24, 32, 40, 48, 56, 232, 248}

InitInstr ==
    /\ Fresh
    /\ \/ \E a \in BCDBytes, b \in BCDBytes, op \in {128, 144} :
              /\ r = [Registers_new EXCEPT !.a = a, !.b = b]
              /\ cart = Cart(<<op, 39>>)                 \* ADD A,B / SUB B; DAA
       \/ \E hi \in ByteSamples, lo \in ByteSamples, sp \in StackSamples, pop \in {209, 241} :
              /\ r = [Registers_new EXCEPT !.b = hi, !.c = lo, !.sp = sp]
              /\ cart = Cart(<<197, pop>>)               \* PUSH BC; POP DE / POP AF
       \/ \E hl \in WordSamples, word \in WordSamples, f \in {0, ZERO + NEGATIVE + HALFCARRY + CARRY} :
              \/ /\ r = [Registers_new EXCEPT !.h = hl \div 256, !.l = hl % 256,
                                              !.b = word \div 256, !.c = word % 256, !.f = f]
                 /\ cart = Cart(<<9>>)                   \* ADD HL,BC
              \/ /\ r = [Registers_new EXCEPT !.h = hl \div 256, !.l = hl % 256,
                                              !.d = word \div 256, !.e = word % 256, !.f = f]
                 /\ cart = Cart(<<25>>)                  \* ADD HL,DE
              \/ /\ r = [Registers_new EXCEPT !.h = hl \div 256, !.l = hl % 256,
                                              !.sp = word, !.f = f]
                 /\ cart \in {Cart(<<57>>), Cart(<<41>>)}  \* ADD HL,SP / ADD HL,HL
       \/ \E op \in BranchOps, f \in {0, ZERO, CARRY, ZERO + CARRY} :
              /\ r = [Registers_new EXCEPT !.f = f]
              /\ cart = Cart(<<op, 2, 0>>)               \* a call, return, jump or SP + n
    /\ interrupt_state = "Disabled"
    /\ halted = FALSE
    /\ ih = InterruptHandler_new
    /\ timer = Timer_new
    /\ overflow_checks \in BOOLEAN
    /\ pre = Snapshot
    /\ start = Snapshot

StepInstr == StepUpTo(InstrSteps)

NextInstr == StepInstr

SpecInstr == InitInstr /\ [][NextInstr]_vars

(***************************************************************************)
(* The peripherals on their own, driven through the bus as the CPU drives  *)
(* them: mmu.spin() passes one machine cycle, mmu.write_u8(addr, value)    *)
(* passes one and then writes a register                                   *)
(***************************************************************************)
\* the next state after a call of an MMU method that leaves the machine `out`
BusCall(out) ==
    /\ ih' = out.ih
    /\ cycles' = out.cycles
    /\ timer' = out.timer
    /\ lcd' = out.lcd
    /\ mem' = out.mem
    /\ cart' = out.cart
    /\ bus' = out.bus
    /\ timer_steps' = out.timer_steps
    /\ lcd_steps' = out.lcd_steps
    /\ raised' = out.raised
    /\ drawn' = out.drawn
    /\ pre' = Snapshot
    /\ nsteps' = nsteps + 1
    /\ result' = IF out.abort THEN Panic ELSE result
    /\ UNCHANGED <<r, interrupt_state, halted, start, overflow_checks, joypad>>

\* mmu.spin(), at most `bound` machine cycles in a run
SpinUpTo(bound) ==
    /\ nsteps < bound
    /\ BusCall(MMU_spin(Machine))
    /\ UNCHANGED hist

\* mmu.write_u8(addr, value) for one of `writes`, at most MaxWrites in a run;
\* hist keeps the writes made
WriteUpTo(bound, writes) ==
    /\ nsteps < bound
    /\ Len(hist) < MaxWrites
    /\ \E w \in writes :
           /\ BusCall(MMU_write_u8(Machine, w.addr, w.value))
           /\ hist' = Append(hist, [kind |-> "write_u8", addr |-> w.addr,
                                    value |-> w.value, at |-> nsteps])

\* the timer at the start of a counting period and one step before its end,
\* at the fastest and at a slow rate, with the counter register at rest and
\* next to its overflow
TimerStates ==
    { [divider |-> 0, counter |-> counter, tima |-> tima, modulo |-> modulo,
       enabled |-> enabled, clock |-> clock] :
         enabled \in BOOLEAN, clock \in {1, 3}, counter \in {0, 12},
         tima \in {0, 254, 255}, modulo \in {0, 7} }

\* writes to TAC (enabled at select 01, enabled at select 11), TIMA and DIV
TimerWrites ==
    { [addr |-> 65287, value |-> 5], [addr |-> 65287, value |-> 7],
      [addr |-> 65285, value |-> 255], [addr |-> 65284, value |-> 9] }

InitTimer ==
    /\ Fresh
    /\ r = Registers_new
    /\ interrupt_state = "Disabled"
    /\ halted = FALSE
    /\ ih = InterruptHandler_new
    /\ timer \in TimerStates
    /\ cart = Cart(<<0>>)
    /\ overflow_checks = FALSE
    /\ pre = Snapshot
    /\ start = Snapshot

TimerCycle == SpinUpTo(MaxTimerCycles)
TimerWrite == WriteUpTo(MaxTimerCycles, TimerWrites)

NextTimer == TimerCycle \/ TimerWrite

SpecTimer == InitTimer /\ [][NextTimer]_vars


\* ---- the cartridge on the bus: reads and writes of its ranges ----

\* mmu.read_u8(addr) or mmu.write_u8(addr, value) for one of `accesses`, at
\* most `bound` in a run and none after a panic; hist keeps the last access
\* made, a read with the byte it returned
AccessUpTo(bound, accesses) ==
    /\ nsteps < bound
    /\ result = Ok
    /\ \E w \in accesses :
           LET read(rd) ==
                   /\ BusCall(rd.s)
                   /\ hist' = <<[kind |-> "read_u8", addr |-> w.addr,
                                value |-> rd.v, at |-> nsteps]>>
               write(out) ==
                   /\ BusCall(out)
                   /\ hist' = <<[kind |-> "write_u8", addr |-> w.addr,
                                value |-> w.value, at |-> nsteps]>>
           IN  IF w.kind = "read_u8" THEN read(MMU_read_u8(Machine, w.addr))
               ELSE write(MMU_write_u8(Machine, w.addr, w.value))

\* a ROM image of rom_len bytes: the first and the last byte of each of its
\* 16 KiB banks carry the bank's number (first: 0x10 + bank, last: 0x80 +
\* bank), every other byte is 0
RomImage(rom_len) ==
    [k \in {x \in {16384 * bank + off : bank \in 0..7, off \in {0, 16383}} : x < rom_len} |->
        IF k % 16384 = 0 THEN 16 + k \div 16384 ELSE 128 + k \div 16384]

\* the cartridges Cartridge::new builds: MBC1 with images of 2, 4 and 8
\* banks and 0, 8 or 32 KiB of RAM; ROM only with 0, 8 or 64 KiB of RAM
Cartridges ==
    {MBC1_new(RomImage(32768), 32768, 0),
     MBC1_new(RomImage(65536), 65536, 8192),
     MBC1_new(RomImage(131072), 131072, 32768)}
    \cup {[mbc |-> "ROM", rom |-> RomImage(32768), rom_len |-> 32768,
           ram |-> EmptyMap, ram_size |-> size] : size \in {0, 8192, 65536}}

CartReads ==
    {[kind |-> "read_u8", addr |-> a, value |-> 0] : a \in {0, 16383, 16384, 32767, 40960, 49151}}

CartWrites ==
    {[kind |-> "write_u8", addr |-> 0, value |-> 10],
     [kind |-> "write_u8", addr |-> 8191, value |-> 250],
     [kind |-> "write_u8", addr |-> 256, value |-> 160],
     [kind |-> "write_u8", addr |-> 8192, value |-> 0],
     [kind |-> "write_u8", addr |-> 8192, value |-> 5],
     [kind |-> "write_u8", addr |-> 16383, value |-> 224],
     [kind |-> "write_u8", addr |-> 16383, value |-> 98],
     [kind |-> "write_u8", addr |-> 16384, value |-> 3],
     [kind |-> "write_u8", addr |-> 24575, value |-> 254],
     [kind |-> "write_u8", addr |-> 24576, value |-> 1],
     [kind |-> "write_u8", addr |-> 28672, value |-> 254],
     [kind |-> "write_u8", addr |-> 32767, value |-> 0],
     [kind |-> "write_u8", addr |-> 40960, value |-> 85],
     [kind |-> "write_u8", addr |-> 49151, value |-> 102]}

InitCart ==
    /\ Fresh
    /\ r = Registers_new
    /\ interrupt_state = "Disabled"
    /\ halted = FALSE
    /\ ih = InterruptHandler_new
    /\ timer = Timer_new
    /\ cart \in Cartridges
    /\ overflow_checks = FALSE
    /\ pre = Snapshot
    /\ start = Snapshot

CartRead == AccessUpTo(MaxCartAccesses, CartReads)

CartWrite == AccessUpTo(MaxCartAccesses, CartWrites)

NextCart == CartRead \/ CartWrite

SpecCart == InitCart /\ [][NextCart]_vars

\* ---- memory on the bus: system RAM, its echo, OAM and the DMA register ----

\* a ROM-only cartridge whose image is distinct at 0x0000-0x009F and at
\* 0x4B00-0x4B9F
MemCart ==
    [mbc |-> "ROM",
     rom |-> [k \in (0 .. 159) \cup (19200 .. 19359) |->
                 IF k < 160 THEN 1 + k ELSE 255 - (k - 19200)],
     rom_len |-> 32768, ram |-> EmptyMap, ram_size |-> 0]

MemReads ==
    {[kind |-> "read_u8", addr |-> a, value |-> 0] :
        a \in {49152, 49311, 56831, 56832, 57344, 57503, 65023, 65024, 65183}}

MemWrites ==
    {[kind |-> "write_u8", addr |-> 49152, value |-> 193],    \* 0xC000
     [kind |-> "write_u8", addr |-> 49311, value |-> 159],    \* 0xC09F
     [kind |-> "write_u8", addr |-> 56831, value |-> 221],    \* 0xDDFF
     [kind |-> "write_u8", addr |-> 56832, value |-> 94],     \* 0xDE00
     [kind |-> "write_u8", addr |-> 57344, value |-> 225],    \* 0xE000
     [kind |-> "write_u8", addr |-> 57503, value |-> 0],      \* 0xE09F
     [kind |-> "write_u8", addr |-> 65023, value |-> 253],    \* 0xFDFF
     [kind |-> "write_u8", addr |-> 65350, value |-> 0],      \* DMA from 0x0000
     [kind |-> "write_u8", addr |-> 65350, value |-> 192],    \* DMA from 0xC000
     [kind |-> "write_u8", addr |-> 65350, value |-> 224]}    \* DMA from 0xE000

InitMem ==
    /\ Fresh
    /\ r = Registers_new
    /\ interrupt_state = "Disabled"
    /\ halted = FALSE
    /\ ih = InterruptHandler_new
    /\ timer = Timer_new
    /\ cart = MemCart
    /\ overflow_checks = FALSE
    /\ pre = Snapshot
    /\ start = Snapshot

MemRead == AccessUpTo(MaxMemAccesses, MemReads)
MemWrite == AccessUpTo(MaxMemAccesses, MemWrites)

NextMem == MemRead \/ MemWrite

SpecMem == InitMem /\ [][NextMem]_vars

\* ---- GameBoy::run_to_vblank: CPU steps until the display reports vblank ----

\* one frame: 154 scanlines of 456 clock cycles (114 machine cycles)
FrameCycles == VBLANK_HEIGHT * SCANLINE_CYCLE_TOTAL

\* programs that switch the display on and then reset lcd_y for ever, halt,
\* or spin, and one that spins with the display left off
RunPrograms ==
    { <<62, 128, 224, 64, 224, 68, 24, 252>>,   \* LD A,0x80; LDH (0x40),A; LDH (0x44),A; JR -4
      <<62, 128, 224, 64, 118>>,                \* LD A,0x80; LDH (0x40),A; HALT
      <<62, 128, 224, 64, 24, 254>>,            \* LD A,0x80; LDH (0x40),A; JR -2
      <<24, 254>> }                             \* JR -2

InitRun ==
    /\ Fresh
    /\ r = Registers_new
    /\ interrupt_state = "Enabled"
    /\ halted = FALSE
    /\ ih = InterruptHandler_new
    /\ timer = Timer_new
    /\ \E bytes \in RunPrograms : cart = Cart(bytes)
    /\ overflow_checks = FALSE
    /\ pre = Snapshot
    /\ start = Snapshot

\* run_to_vblank has been entered (every CPU step takes cycles, and it is
\* entered after a step)
Entered == start.cycles > 0

\* CPU steps before the call: what brings the machine to the states
\* run_to_vblank is called in
BootStep == ~Entered /\ StepUpTo(MaxBootSteps)

\* the call of GameBoy::run_to_vblank
RunToVBlank ==
    /\ ~Entered
    /\ nsteps >= 1
    /\ result = Ok
    /\ start' = Snapshot
    /\ UNCHANGED <<r, interrupt_state, halted, ih, cycles, timer, lcd, mem, cart, bus,
                   timer_steps, lcd_steps, raised, drawn, result, pre, hist, nsteps,
                   overflow_checks, joypad>>

\* one iteration of `while !mmu.lcd.vblank_reached() { self.step(mmu)?; }`,
\* followed for MaxFrames frames
LoopStep ==
    /\ Entered
    /\ ~vblank_reached(lcd)
    /\ cycles - start.cycles <= MaxFrames * FrameCycles
    /\ StepUpTo(MaxBootSteps + MaxFrames * FrameCycles)

NextRun == BootStep \/ RunToVBlank \/ LoopStep

SpecRun == InitRun /\ [][NextRun]_vars

\* ---- the joypad: the host sets the controls, the register is written ----

\* struct Controls with the controls of `held` down
ControlsHeld(held) ==
    [left |-> "left" \in held, right |-> "right" \in held, up |-> "up" \in held,
     down |-> "down" \in held, a |-> "a" \in held, b |-> "b" \in held,
     start |-> "start" \in held, select |-> "select" \in held]

ControlSamples ==
    {ControlsHeld(held) :
        held \in {{}, {"a"}, {"right"}, {"b", "left"}, {"select", "down"},
                  {"start", "up"}, {"a", "b", "select", "start"},
                  {"left", "right", "up", "down"}, {"a", "down"}}}

SelectSamples == {0, 16, 32, 48, 207, 223, 239, 255}

\* the controls of the last set_from_controls call; none before the first
ControlsDown == IF hist = <<>> THEN ControlsHeld({}) ELSE hist[Len(hist)].controls

JoypadCall(kind, value, controls) ==
    /\ nsteps < MaxJoypadCalls
    /\ hist' = <<[kind |-> kind, value |-> value, controls |-> controls, at |-> nsteps]>>
    /\ pre' = Snapshot
    /\ nsteps' = nsteps + 1
    /\ UNCHANGED <<r, interrupt_state, halted, cycles, timer, lcd, mem, cart, bus,
                   timer_steps, lcd_steps, raised, drawn, result, start,
                   overflow_checks>>

SetControls ==
    \E controls \in ControlSamples :
        LET given(out) == joypad' = out.joypad /\ ih' = out.ih
        IN  /\ given(set_from_controls(joypad, controls, ih))
            /\ JoypadCall("set_from_controls", 0, controls)

WriteSelectBits ==
    \E value \in SelectSamples :
        /\ joypad' = write_select_bits(joypad, value)
        /\ ih' = ih
        /\ JoypadCall("write_select_bits", value, ControlsDown)

InitJoypad ==
    /\ Fresh
    /\ r = Registers_new
    /\ interrupt_state = "Enabled"
    /\ halted = FALSE
    /\ ih = InterruptHandler_new
    /\ timer = Timer_new
    /\ cart = Cart(<<0>>)
    /\ overflow_checks = FALSE
    /\ pre = Snapshot
    /\ start = Snapshot

NextJoypad == SetControls \/ WriteSelectBits

SpecJoypad == InitJoypad /\ [][NextJoypad]_vars

(***************************************************************************)
(* A halted CPU: CPU::run_forever steps it again and again, each halted    *)
(* step spinning the bus once, with the timer enabled at the fastest rate  *)
(* and the Timer interrupt (bit 2) among the enabled ones                  *)
(***************************************************************************)
HaltTimers ==
    { [divider |-> 0, counter |-> counter, tima |-> tima, modulo |-> modulo,
       enabled |-> TRUE, clock |-> 1] :
          counter \in {0, 12}, tima \in {254, 255}, modulo \in {0, 255} }

InitHalt ==
    /\ Fresh
    /\ r = Registers_new
    /\ interrupt_state \in {"Disabled", "Enabled"}
    /\ halted = TRUE
    /\ \E enable \in {4, 6, 20} : ih = [flag |-> 0, enable |-> enable]
    /\ timer \in HaltTimers
    /\ cart = Cart(<<0>>)
    /\ overflow_checks = FALSE
    /\ pre = Snapshot
    /\ start = Snapshot

StepHalt == StepUpTo(MaxHaltSteps)

NextHalt == StepHalt

SpecHalt == InitHalt /\ [][NextHalt]_vars

\* the loop of run_forever never stops calling step: StepHalt is enabled
\* whenever its two guards hold, and its steps are the steps that count
StepCounted ==
    /\ run_forever_continues(result)
    /\ nsteps < MaxHaltSteps
    /\ nsteps' = nsteps + 1

SpecHaltFair == InitHalt /\ [][NextHalt]_vars /\ WF_nsteps(StepCounted)

\* ---- the display on the bus: machine cycles and register writes ----

\* The positions of the display the runs start from: the last two machine
\* cycles of the first, second, last visible, first blanking and last two
\* scanlines, and the last two of their OAM search and pixel transfer, with
\* none, the coincidence, the VBlank or the HBlank and OAM interrupt enabled. A position is what LCD::step leaves there: the mode and the
\* coincidence flag are those its set_status computed in that step.
LCDStates ==
    LET lines == {0, 1, 143, 144, 153, 154}
        countdowns == {8, 12, 208, 380}
        enables == {0, 64, 80, 16, 40}
        compares == {1, 144}
    IN  {LCD_new} \cup
        {LCD_step([LCD_new EXCEPT !.control = 128, !.status = enabled,
                                  !.lcd_y = line, !.scanline_cycle_count = countdown,
                                  !.lcd_y_compare = compare],
                  InterruptHandler_new).lcd :
            line \in lines, countdown \in countdowns,
            enabled \in enables, compare \in compares}

\* what the program writes: display off and on (0xFF40), the coincidence
\* interrupt enable (0xFF41), the line counter (0xFF44), the compare line
\* (0xFF45), and the requested flags cleared (0xFF0F)
LCDWrites ==
    {[addr |-> 65344, value |-> 0], [addr |-> 65344, value |-> 128],
     [addr |-> 65345, value |-> 64], [addr |-> 65348, value |-> 7],
     [addr |-> 65349, value |-> 145], [addr |-> 65295, value |-> 0]}

InitLCD ==
    /\ cycles = 0
    /\ lcd \in LCDStates
    /\ mem = Mem_new
    /\ bus = <<>>
    /\ timer_steps = 0
    /\ lcd_steps = 0
    /\ raised = 0
    /\ drawn = <<>>
    /\ result = Ok
    /\ hist = <<>>
    /\ nsteps = 0
    /\ joypad = Joypad_new
    /\ r = Registers_new
    /\ interrupt_state = "Disabled"
    /\ halted = FALSE
    /\ ih = InterruptHandler_new
    /\ timer = Timer_new
    /\ cart = Cart(<<0>>)
    /\ overflow_checks = FALSE
    /\ pre = Snapshot
    /\ start = Snapshot

LCDCycle == SpinUpTo(MaxLCDCycles)

LCDWrite == WriteUpTo(MaxLCDCycles, LCDWrites)

NextLCD == LCDCycle \/ LCDWrite

SpecLCD == InitLCD /\ [][NextLCD]_vars


(***************************************************************************)
(* Properties                                                              *)
(***************************************************************************)
\* the record of the step (or signal) that led to the current state
Last == hist[Len(hist)]
Stepped == hist # <<>>

\* (requested AND enabled) when the last step began
PendingBefore == BitAnd(pre.ih.flag, pre.ih.enable)

\* b is the position of the lowest bit set in f
LowestBit(f, b) == Bit(f, b) = 1 /\ \A k \in 0..(b - 1) : Bit(f, k) = 0

\* the last step began in state Enabled with an enabled interrupt requested
ServiceDue == Stepped /\ pre.interrupt_state = "Enabled" /\ PendingBefore # 0

\* C1: set_interrupt sets exactly the requested-flags bit at the position of
\* the interrupt signalled (VBlank 0, LCD-status 1, Timer 2, Serial 3,
\* Joypad 4) and leaves the other requested bits and the enabled-flags byte
\* as they were.
C1_SignalSetsItsBit ==
    (Stepped /\ Last.kind = "set_interrupt") =>
        /\ ih.flag = BitOr(pre.ih.flag, 2 ^ Last.op)
        /\ ih.enable = pre.ih.enable

\* a Timer interrupt was signalled with no request pending
C1_TimerSignalled ==
    Stepped /\ Last.kind = "set_interrupt" /\ Last.op = Timer /\ pre.ih.flag = 0

\* C2: a step that services an interrupt sets PC to the vector of the
\* lowest-numbered bit set in (requested AND enabled): 0x40, 0x48, 0x50,
\* 0x58, 0x60 for bits 0..4, whichever higher bits are also set.
C2_DispatchVector ==
    (ServiceDue /\ result.tag = "Ok") =>
        \E b \in 0..4 : LowestBit(PendingBefore, b) /\ r.pc = 64 + 8 * b

\* bits 1 and 2 were both requested and enabled, and the LCD-status vector
\* was taken
C2_LowerOfTwoServiced ==
    ServiceDue /\ result.tag = "Ok" /\ PendingBefore = 6 /\ r.pc = 72

\* what a service step does, for the interrupt at bit b
Serviced(b) ==
    /\ LowestBit(PendingBefore, b)
    /\ ih.flag = BitOr(BitAnd(pre.ih.flag, Not8(2 ^ b)), raised)
    /\ interrupt_state = "Disabled"
    /\ ~halted
    /\ r.sp = wrapping_sub16(pre.r.sp, 2)
    /\ Len(bus) = 3
    /\ bus[1].op = "spin"
    /\ bus[2].op = "write" /\ bus[2].addr = wrapping_sub16(pre.r.sp, 1)
    /\ bus[2].value = pre.r.pc \div 256
    /\ bus[3].op = "write" /\ bus[3].addr = wrapping_sub16(pre.r.sp, 2)
    /\ bus[3].value = pre.r.pc % 256

\* C3: a step that begins in state Enabled with (requested AND enabled) # 0
\* services exactly one interrupt and fetches no opcode: it clears only the
\* serviced request bit (the peripherals stepped by the push may raise
\* others), sets the state to Disabled, clears halted and pushes the
\* pre-step PC (high byte at SP-1, low byte at SP-2, SP decreased by 2).
C3_ServiceStep ==
    ServiceDue => (result.tag = "Ok" /\ \E b \in 0..4 : Serviced(b))

\* the same for the steps whose lowest requested and enabled bit is one of
\* the five interrupts: these are serviced as C3 says
ServiceStepOfDefinedInterrupt ==
    (ServiceDue /\ \E b \in 0..4 : LowestBit(PendingBefore, b)) =>
        (result.tag = "Ok" /\ \E b \in 0..4 : Serviced(b))

\* a step began Enabled with only bit 5 requested and enabled
C3_UndefinedBitDue == ServiceDue /\ PendingBefore = 32

\* step i of the history executed EI in state Disabled
EIAt(i) ==
    /\ hist[i].kind = "exec" /\ ~hist[i].cb /\ hist[i].op = 251
    /\ hist[i].before = "Disabled"

\* C4 as stated: after EI executes in state Disabled, the next step does not
\* dispatch even when an enabled interrupt is requested: it executes the
\* next instruction and ends with state Enabled.
C4_StepAfterEIEndsEnabled ==
    \A i \in 1..(Len(hist) - 1) :
        (EIAt(i) /\ hist[i + 1].ret = "Ok") =>
            (hist[i + 1].kind = "exec" /\ hist[i + 1].state = "Enabled")

\* C4, amended: after EI executes in state Disabled, the next step does not
\* dispatch even when an enabled interrupt is requested: it fetches the next
\* opcode, and when it returns Ok it has executed that instruction and ends
\* with state Enabled, unless the instruction is DI (Disabled) or RETI
\* (Enabling); so the earliest step that can dispatch is the second after EI.
C4_StepAfterEIFetches ==
    \A i \in 1..(Len(hist) - 1) :
        EIAt(i) =>
            /\ hist[i].state = "Enabling"
            /\ hist[i + 1].kind \in {"exec", "error"}
            /\ hist[i + 1].ret = "Ok" =>
                  /\ hist[i + 1].kind = "exec"
                  /\ hist[i + 1].state =
                        IF ~hist[i + 1].cb /\ hist[i + 1].op = 243 THEN "Disabled"
                        ELSE IF ~hist[i + 1].cb /\ hist[i + 1].op = 217 THEN "Enabling"
                        ELSE "Enabled"

\* EI in state Disabled with an enabled interrupt requested, then a NOP, then
\* the dispatch
C4_DispatchSecondAfterEI ==
    /\ Len(hist) = 3
    /\ EIAt(1) /\ hist[1].pending # 0
    /\ hist[2].kind = "exec" /\ hist[2].op = 0 /\ hist[2].pending # 0
    /\ hist[3].kind = "interrupt"

\* the last step began halted and was not due to service an interrupt
HaltedStep == Stepped /\ pre.halted /\ ~ServiceDue

\* C5: a step that starts halted and does not service an interrupt: if
\* (requested AND enabled) # 0 it clears halted without servicing, without
\* a fetch and without changing PC or the request bits; otherwise it spins
\* exactly once (cycle counter +4, Timer and LCD stepped once each) and
\* remains halted.
C5_HaltedStep ==
    HaltedStep =>
        IF PendingBefore # 0
        THEN /\ ~halted
             /\ bus = <<>>
             /\ r = pre.r
             /\ ih = pre.ih
             /\ interrupt_state = pre.interrupt_state
             /\ cycles = pre.cycles
        ELSE /\ halted
             /\ Len(bus) = 1 /\ bus[1].op = "spin"
             /\ cycles = pre.cycles + 4
             /\ timer_steps = pre.timer_steps + 1
             /\ lcd_steps = pre.lcd_steps + 1
             /\ r = pre.r

\* a halted CPU with interrupts disabled was woken by a requested and
\* enabled interrupt that is still requested
C5_WokenWithoutService ==
    HaltedStep /\ PendingBefore # 0 /\ pre.interrupt_state = "Disabled" /\ ~halted

\* the last step fetched an opcode that its dispatch table does not bind
Unbound ==
    /\ Stepped /\ Last.kind \in {"exec", "error"}
    /\ (IF Last.cb THEN CBTable ELSE PrimaryTable)[Last.op + 1].fn = "unrecognized"

\* C6: when the opcode fetched (or the byte after a 0xCB prefix) is not
\* bound in its table, step returns an error that carries the opcode and
\* the address it was fetched from, and the run loop takes no further step.
C6_ErrorCarriesOpcodeAndAddress ==
    Unbound =>
        /\ result.tag = "Err"
        /\ [field |-> "opcode", value |-> Last.op] \in result.args
        /\ [field |-> "address", value |-> Last.at] \in result.args
        /\ ~run_forever_continues(result)

\* what the code does for an unbound opcode: the error carries the opcode
\* and nothing else, and the loop stops
UnboundOpcodeErrorCarriesOpcode ==
    Unbound =>
        /\ result = Err_unrecognized(Last.op)
        /\ ~run_forever_continues(result)
        /\ ~ENABLED Step

After(c, n) == <<c[1] + 4 * n, c[2] + n, c[3] + n>>

Executed(ops) == Stepped /\ Last.kind = "exec" /\ ~Last.cb /\ Last.op \in ops
\* its operand: register B, or the byte after the opcode
OperandBefore ==
    IF Last.op \in ALURegisterOps THEN pre.r.b ELSE Get(cart.rom, wrapping_add16(pre.r.pc, 1))
CarryBefore == Bit(pre.r.f, 4)
FlagIs(flag, condition) == contains(r.f, flag) <=> condition

\* C9: for all A, v in 0..255 and carry-in c (0 for ADD, the Carry flag for
\* ADC): A becomes (A + v + c) mod 256, Zero is set iff that is 0, Negative
\* is cleared, HalfCarry is set iff (A & 0xF) + (v & 0xF) + c > 0xF and
\* Carry iff A + v + c > 0xFF.
C9_AddAdc ==
    Executed({128, 198, 136, 206}) =>
        LET a == pre.r.a
            v == OperandBefore
            c == IF Last.op \in {136, 206} THEN CarryBefore ELSE 0
        IN  /\ r.a = (a + v + c) % 256
            /\ FlagIs(ZERO, (a + v + c) % 256 = 0)
            /\ FlagIs(NEGATIVE, FALSE)
            /\ FlagIs(HALFCARRY, (a % 16) + (v % 16) + c > 15)
            /\ FlagIs(CARRY, a + v + c > 255)

\* ADC A,B with A = 0xFF, B = 0 and the Carry flag set gave 0 with Zero,
\* HalfCarry and Carry
C9_AdcCarryIn ==
    /\ Executed({136}) /\ pre.r.a = 255 /\ pre.r.b = 0 /\ CarryBefore = 1
    /\ r.a = 0 /\ r.f = ZERO + HALFCARRY + CARRY

\* C10: for all A, v in 0..255 and borrow-in c (0 for SUB and CP, the Carry
\* flag for SBC): Zero iff (A - v - c) mod 256 = 0, Negative set, HalfCarry
\* iff (A & 0xF) < (v & 0xF) + c, Carry iff A < v + c; SUB and SBC store
\* (A - v - c) mod 256 in A and CP leaves A unchanged.
C10_SubSbcCp ==
    Executed({144, 214, 152, 222, 184, 254}) =>
        LET a == pre.r.a
            v == OperandBefore
            c == IF Last.op \in {152, 222} THEN CarryBefore ELSE 0
        IN  /\ r.a = IF Last.op \in {184, 254} THEN a ELSE (a - v - c + 512) % 256
            /\ FlagIs(ZERO, (a - v - c + 512) % 256 = 0)
            /\ FlagIs(NEGATIVE, TRUE)
            /\ FlagIs(HALFCARRY, (a % 16) < (v % 16) + c)
            /\ FlagIs(CARRY, a < v + c)

\* SUB B with A = 0x00, B = 0x01 gave A = 0xFF with Negative, HalfCarry and
\* Carry
C10_SubBorrow ==
    /\ Executed({144}) /\ pre.r.a = 0 /\ pre.r.b = 1
    /\ r.a = 255 /\ r.f = NEGATIVE + HALFCARRY + CARRY

\* the number a packed-BCD byte stands for, and the packed-BCD byte of a
\* number below 100
FromBCD(x) == 10 * (x \div 16) + (x % 16)
ToBCD(n) == 16 * (n \div 10) + (n % 10)

\* the run was ADD A,B or SUB B on packed-BCD bytes, then DAA
DecimalAdjusted ==
    /\ nsteps = 2
    /\ hist[1].kind = "exec" /\ ~hist[1].cb /\ hist[1].op \in {128, 144}
    /\ hist[2].kind = "exec" /\ ~hist[2].cb /\ hist[2].op = 39
    /\ start.r.a \in BCDBytes /\ start.r.b \in BCDBytes

\* C11: for all packed-BCD bytes a, b: ADD a,b then DAA leaves A = packed
\* BCD of (a + b) mod 100 with Carry iff a + b >= 100; SUB a,b then DAA
\* leaves A = packed BCD of (a - b) mod 100 with Carry iff a < b; in both
\* cases HalfCarry is cleared, Negative is preserved and Zero is set iff
\* A = 0.
C11_DecimalAdjust ==
    DecimalAdjusted =>
        LET a == FromBCD(start.r.a)
            b == FromBCD(start.r.b)
            added == hist[1].op = 128
        IN  /\ r.a = ToBCD(IF added THEN (a + b) % 100 ELSE (a - b + 100) % 100)
            /\ FlagIs(CARRY, IF added THEN a + b >= 100 ELSE a < b)
            /\ FlagIs(HALFCARRY, FALSE)
            /\ FlagIs(NEGATIVE, contains(pre.r.f, NEGATIVE))
            /\ FlagIs(NEGATIVE, ~added)
            /\ FlagIs(ZERO, r.a = 0)

\* 0x09 + 0x09 gave 0x12 and DAA made it 0x18 with Carry clear
C11_NineAndNine ==
    /\ DecimalAdjusted /\ hist[1].op = 128
    /\ start.r.a = 9 /\ start.r.b = 9 /\ pre.r.a = 18
    /\ r.a = 24 /\ ~contains(r.f, CARRY)

\* the run was PUSH BC, then POP DE or POP AF
PushedThenPopped ==
    /\ nsteps = 2
    /\ hist[1].kind = "exec" /\ ~hist[1].cb /\ hist[1].op = 197
    /\ hist[2].kind = "exec" /\ ~hist[2].cb /\ hist[2].op \in {209, 241}

\* the word pushed
Pushed == start.r.b * 256 + start.r.c

\* C12 as stated: for every 16-bit value v, a push of v immediately
\* followed by a pop returns exactly v and leaves the stack pointer equal
\* to its value before the push.
C12_StackRoundTrip ==
    (PushedThenPopped /\ hist[2].op = 209) =>
        /\ r.d * 256 + r.e = Pushed
        /\ r.sp = start.r.sp

\* the addresses where the bus stores a byte written and reads it back:
\* VRAM, work RAM and its echo, OAM, high RAM and the register at 0xFFFF
ReadWrite(addr) ==
    \/ addr >= 32768 /\ addr <= 40959
    \/ addr >= 49152 /\ addr <= 65183
    \/ addr >= 65408 /\ addr <= 65535

\* C12, amended: for every 16-bit value v, a push of v immediately followed
\* by a pop leaves the stack pointer equal to its value before the push
\* (push stores the high byte at SP-1 and the low byte at SP-2; pop reads
\* low then high), and when these two addresses are memory that stores
\* what is written the pop returns exactly v (POP AF: v AND 0xFFF0).
C12_StackRoundTripInMemory ==
    PushedThenPopped =>
        LET sp == start.r.sp
            top == wrapping_sub16(sp, 2)
        IN  /\ r.sp = sp
            /\ pre.r.sp = top
            /\ Len(bus) = 3
            /\ bus[2].op = "read" /\ bus[2].addr = top
            /\ bus[3].op = "read" /\ bus[3].addr = wrapping_sub16(sp, 1)
            /\ (ReadWrite(top) /\ ReadWrite(wrapping_sub16(sp, 1))) =>
                  /\ bus[2].value = Pushed % 256
                  /\ bus[3].value = Pushed \div 256
                  /\ hist[2].op = 209 => r.d * 256 + r.e = Pushed
                  /\ hist[2].op = 241 => r.a * 256 + r.f = Pushed - (Pushed % 16)

\* 0xABFF was pushed with the stack pointer at 0x0000 and popped into DE
\* from 0xFFFE and 0xFFFF
C12_RoundTripAcrossZero ==
    /\ PushedThenPopped /\ hist[2].op = 209
    /\ start.r.sp = 0 /\ Pushed = 44031
    /\ r.d = 171 /\ r.e = 255 /\ r.sp = 0

\* C13: in every reachable CPU state the low nibble of the Flags register
\* is zero, also after POP AF of an arbitrary stack word, whose low four
\* bits are discarded.
C13_FlagsLowNibbleZero == r.f % 16 = 0

\* POP AF read a low byte with a nonzero low nibble from the stack
C13_PoppedLowNibble ==
    /\ PushedThenPopped /\ hist[2].op = 241
    /\ bus[2].value = 255 /\ r.f = 240 /\ r.a = bus[3].value

\* C14: ADD HL,rr for all 16-bit HL and rr: HL becomes (HL + rr) mod 65536,
\* HalfCarry is set iff (HL & 0x0FFF) + (rr & 0x0FFF) > 0x0FFF (carry out
\* of bit 11), Carry iff HL + rr > 0xFFFF, Negative is cleared and Zero is
\* left unchanged.
C14_AddHL ==
    Executed({9, 25, 41, 57}) =>
        LET hl == pre.r.h * 256 + pre.r.l
            word == CASE Last.op = 9 -> pre.r.b * 256 + pre.r.c
                      [] Last.op = 25 -> pre.r.d * 256 + pre.r.e
                      [] Last.op = 41 -> hl
                      [] Last.op = 57 -> pre.r.sp
        IN  /\ r.h * 256 + r.l = (hl + word) % 65536
            /\ FlagIs(HALFCARRY, (hl % 4096) + (word % 4096) > 4095)
            /\ FlagIs(CARRY, hl + word > 65535)
            /\ FlagIs(NEGATIVE, FALSE)
            /\ FlagIs(ZERO, contains(pre.r.f, ZERO))

\* what the code computes: the half carry out of bit 10
AddHLHalfCarryOutOfBit10 ==
    Executed({9, 25, 41, 57}) =>
        LET hl == pre.r.h * 256 + pre.r.l
            word == CASE Last.op = 9 -> pre.r.b * 256 + pre.r.c
                      [] Last.op = 25 -> pre.r.d * 256 + pre.r.e
                      [] Last.op = 41 -> hl
                      [] Last.op = 57 -> pre.r.sp
        IN  /\ r.h * 256 + r.l = (hl + word) % 65536
            /\ FlagIs(HALFCARRY, (hl % 2048) + (word % 2048) > 2047)
            /\ FlagIs(CARRY, hl + word > 65535)
            /\ FlagIs(NEGATIVE, FALSE)
            /\ FlagIs(ZERO, contains(pre.r.f, ZERO))

\* the run began with the timer enabled at the fastest rate (select 01,
\* ratio 16), the internal counter at 0 and tima below 0xFF, and has been
\* machine cycles only, no register write
FastTimerRun ==
    /\ start.timer.enabled /\ start.timer.clock = 1
    /\ start.timer.counter = 0 /\ start.timer.tima < 255
    /\ hist = <<>>
    /\ timer_steps = nsteps

\* C15 as stated: with the timer enabled at the fastest rate (ratio 16),
\* tima = t < 0xFF and the internal counter at 0, performing 16 machine
\* cycles (16 Timer steps) leaves tima equal to exactly t + 1.
C15_SixteenMachineCycles ==
    (FastTimerRun /\ nsteps = 16) => timer.tima = start.timer.tima + 1

\* C15, amended: with the timer enabled at the fastest rate (ratio 16),
\* tima = t < 0xFF and the internal counter at 0, performing 16 clock
\* cycles, which are 4 machine cycles (4 Timer steps), leaves tima equal to
\* exactly t + 1, the increment being made by the fourth step.
C15_SixteenClockCycles ==
    FastTimerRun =>
        /\ nsteps < 4 => timer.tima = start.timer.tima
        /\ nsteps = 4 => (timer.tima = start.timer.tima + 1 /\ timer.counter = 0)

\* four machine cycles took tima from 254 to 255
C15_FourthStepIncrements ==
    FastTimerRun /\ nsteps = 4 /\ start.timer.tima = 254 /\ timer.tima = 255

\* the last action was one machine cycle in which the enabled timer
\* incremented its counter register (the internal counter was reduced)
Incremented ==
    /\ nsteps > 0
    /\ Len(bus) = 1 /\ bus[1].op = "spin"
    /\ pre.timer.enabled
    /\ timer.counter # pre.timer.counter + 4

\* C16: when an increment of the timer counter register overflows from
\* 0xFF, the counter is reloaded with the modulo register's value and the
\* Timer bit (bit 2) of the requested-flags byte becomes set; an increment
\* that does not overflow sets no request bit.
C16_OverflowRequestsTimer ==
    Incremented =>
        IF pre.timer.tima = 255
        THEN timer.tima = pre.timer.modulo /\ Bit(ih.flag, 2) = 1
        ELSE timer.tima = pre.timer.tima + 1 /\ raised = 0 /\ ih.flag = pre.ih.flag

\* what the code does: the reload is as claimed, the request is the one
\* set_interrupt makes of Interrupt::Timer
OverflowReloadsModulo ==
    Incremented =>
        IF pre.timer.tima = 255
        THEN timer.tima = pre.timer.modulo /\ ih.flag = BitOr(pre.ih.flag, Timer)
        ELSE timer.tima = pre.timer.tima + 1 /\ raised = 0 /\ ih.flag = pre.ih.flag

\* an increment overflowed with modulo 7
C16_Overflowed ==
    Incremented /\ pre.timer.tima = 255 /\ pre.timer.modulo = 7 /\ timer.tima = 7

\* the last action was one machine cycle without data transfer
MachineCycle == nsteps > 0 /\ Len(bus) = 1 /\ bus[1].op = "spin"

\* the only register the program has written in this run is the
\* requested-flags byte
OnlyFlagsWritten == \A i \in 1..Len(hist) : hist[i].addr = 65295

\* a machine cycle that the display began enabled, with the coincidence
\* interrupt (and no mode interrupt) enabled and lcd_y = lcd_y_compare
CoincidenceCycle ==
    /\ MachineCycle
    /\ OnlyFlagsWritten
    /\ control_enable(pre.lcd)
    /\ (pre.lcd.status \div 8) % 16 = 8
    /\ pre.lcd.lcd_y = pre.lcd.lcd_y_compare

\* the display had already seen the coincidence on this scanline
SeenOnThisLine == Bit(pre.lcd.status, 2) = 1

\* C17: with the display and the coincidence interrupt enabled, the
\* LCD-status request (bit 1) is raised once per scanline on which
\* lcd_y = lcd_y_compare, in the machine cycle that first sees the
\* coincidence, and not again in the later machine cycles of that scanline,
\* so that a bit the program has cleared stays clear.
C17_CoincidenceOncePerLine ==
    CoincidenceCycle =>
        IF SeenOnThisLine THEN ih.flag = pre.ih.flag
        ELSE Bit(ih.flag, 1) = 1

\* what the code does: every machine cycle with lcd_y = lcd_y_compare makes
\* the request, and the request is the one set_interrupt makes of
\* Interrupt::LCDC
CoincidenceRequestedEveryCycle ==
    CoincidenceCycle => ih.flag = BitOr(pre.ih.flag, LCDC)

\* the program cleared the requested flags on a coincidence scanline and the
\* next machine cycle of that scanline made the request again
C17_RequestedAgainAfterClear ==
    /\ CoincidenceCycle /\ SeenOnThisLine
    /\ hist # <<>> /\ hist[Len(hist)].at = nsteps - 2
    /\ pre.ih.flag = 0 /\ ih.flag # 0
    /\ lcd.lcd_y = pre.lcd.lcd_y

\* a machine cycle in which the enabled display finished a scanline
LineDone ==
    /\ MachineCycle
    /\ OnlyFlagsWritten
    /\ control_enable(pre.lcd)
    /\ pre.lcd.scanline_cycle_count = 4

\* C18: lcd_y stays within 0..=153: the scanline after each of 0..152 is
\* the next one and the scanline after 153 is 0, so that a frame visits
\* every scanline 0..153 and scanline 0 is drawn in every frame.
C18_LineCounterWraps ==
    (LineDone /\ pre.lcd.lcd_y <= 153) =>
        /\ lcd.lcd_y = (pre.lcd.lcd_y + 1) % 154
        /\ drawn = IF pre.lcd.lcd_y < 144 THEN <<pre.lcd.lcd_y>> ELSE <<>>

\* what the code does: scanline 153 is followed by a scanline 154, and that
\* by scanline 1; the visible scanline finished is the one drawn
LineCounterPasses154 ==
    LineDone =>
        /\ lcd.lcd_y = IF pre.lcd.lcd_y = 154 THEN 1 ELSE pre.lcd.lcd_y + 1
        /\ drawn = IF pre.lcd.lcd_y < 144 THEN <<pre.lcd.lcd_y>> ELSE <<>>

\* scanline 154 was finished and the display went on to scanline 1
LineZeroSkipped ==
    LineDone /\ pre.lcd.lcd_y = 154 /\ lcd.lcd_y = 1 /\ drawn = <<>>

\* a machine cycle of the enabled display that began with no VBlank request
\* pending
DisplayCycle ==
    /\ MachineCycle
    /\ OnlyFlagsWritten
    /\ control_enable(pre.lcd)
    /\ Bit(pre.ih.flag, 0) = 0

\* C19: the VBlank request (bit 0) becomes set in the machine cycle in which
\* lcd_y advances to 144, and in no other machine cycle of the frame.
C19_VBlankOnEntering144 ==
    DisplayCycle =>
        (Bit(ih.flag, 0) = 1 <=> (pre.lcd.lcd_y = 143 /\ lcd.lcd_y = 144))

\* what the code does: with no LCD-status interrupt enabled, no machine
\* cycle of the display changes the requested flags, the one that finishes
\* scanline 144 (where the code signals VBlank) included
VBlankSignalSetsNothing ==
    (DisplayCycle /\ (pre.lcd.status \div 8) % 16 = 0) => ih.flag = pre.ih.flag

\* the display finished scanline 143, and then scanline 144, and the
\* requested flags stayed clear
VBlankEntryWithoutRequest ==
    /\ DisplayCycle /\ (pre.lcd.status \div 8) % 16 = 0
    /\ pre.lcd.lcd_y \in {143, 144} /\ lcd.lcd_y = pre.lcd.lcd_y + 1
    /\ ih.flag = 0

\* the last action stepped the display once, and the display began it
\* disabled
DisabledStep ==
    /\ nsteps > 0
    /\ lcd_steps = pre.lcd_steps + 1
    /\ Bit(pre.lcd.control, 7) = 0

\* the last action wrote the display's status register (after its step)
StatusWritten ==
    /\ hist # <<>>
    /\ hist[Len(hist)].at = nsteps - 1
    /\ hist[Len(hist)].addr = 65345

\* C20: an LCD step made with the enable bit clear leaves mode = VBlank,
\* lcd_y = 0 and the countdown at 456, for as long as the display stays
\* disabled; it raises no request and draws no scanline. (A write to the
\* status register stores its byte after the step of that access; the next
\* step, which precedes every read, puts VBlank back.)
C20_DisabledDisplayResets ==
    DisabledStep =>
        /\ lcd.lcd_y = 0
        /\ lcd.scanline_cycle_count = SCANLINE_CYCLE_TOTAL
        /\ StatusWritten \/ mode_flag(lcd) = ModeVBlank
        /\ raised = 0
        /\ drawn = <<>>

\* the program switched the display off in the middle of a frame, and the
\* next machine cycle reset the line counter and the countdown
C20_SwitchedOffMidFrame ==
    /\ DisabledStep /\ MachineCycle
    /\ pre.lcd.lcd_y = 143 /\ pre.lcd.scanline_cycle_count < SCANLINE_CYCLE_TOTAL
    /\ mode_flag(pre.lcd) = HBlank
    /\ lcd.lcd_y = 0 /\ lcd.scanline_cycle_count = SCANLINE_CYCLE_TOTAL
    /\ mode_flag(lcd) = ModeVBlank

\* the cartridge is the bank-switched variant
BankSwitched == cart.mbc = "MBC1"

\* the last action was a write (a read) of an address in lo..hi
WroteTo(lo, hi) ==
    /\ hist # <<>> /\ Last.at = nsteps - 1
    /\ Last.kind = "write_u8" /\ Last.addr >= lo /\ Last.addr <= hi
ReadFrom(lo, hi) ==
    /\ hist # <<>> /\ Last.at = nsteps - 1
    /\ Last.kind = "read_u8" /\ Last.addr >= lo /\ Last.addr <= hi

\* C21: in the bank-switched variant the low five bits of the ROM bank
\* selector are never zero and the selector stays in 1..=0x7F; a write of v
\* to 0x2000-0x3FFF sets the low five bits to v & 0x1F, or to 1 when that is
\* 0, and leaves the upper two selector bits, the RAM bank, the RAM-enable
\* latch and the mode flag unchanged.
C21_RomBankSelector ==
    BankSwitched =>
        /\ cart.rom_bank_selection % 32 # 0
        /\ cart.rom_bank_selection \in 1..127
        /\ WroteTo(8192, 16383) =>
              /\ cart.rom_bank_selection % 32 =
                     (IF Last.value % 32 = 0 THEN 1 ELSE Last.value % 32)
              /\ cart.rom_bank_selection \div 32 = pre.cart.rom_bank_selection \div 32
              /\ cart.ram_bank_selection = pre.cart.ram_bank_selection
              /\ cart.ram_enabled = pre.cart.ram_enabled
              /\ cart.ram_select_mode = pre.cart.ram_select_mode

\* with the upper selector bits at 3, a write whose low five bits are zero
\* selected bank 0x61
C21_ZeroCoercedToOne ==
    /\ BankSwitched /\ WroteTo(8192, 16383)
    /\ Last.value % 32 = 0
    /\ pre.cart.rom_bank_selection = 101
    /\ cart.rom_bank_selection = 97

\* the byte of the image at `offset`, the sentinel outside the image
ImageByte(offset) == IF offset < cart.rom_len THEN Get(cart.rom, offset) ELSE 255

\* C22: in the bank-switched variant with ROM bank selector b, a read of
\* addr in 0x4000..=0x7FFF returns the image's byte at offset
\* 0x4000 * b + (addr - 0x4000) when that offset is inside the image and 0xFF
\* otherwise, without a panic; a read of addr in 0x0000..=0x3FFF returns
\* rom[addr] whatever the bank state.
C22_BankedRead ==
    BankSwitched =>
        /\ ReadFrom(16384, 32767) =>
              /\ result = Ok
              /\ Last.value = ImageByte(16384 * cart.rom_bank_selection + (Last.addr - 16384))
        /\ ReadFrom(0, 16383) =>
              /\ result = Ok
              /\ Last.value = Get(cart.rom, Last.addr)

\* with bank 2 selected, the read of 0x4000 returned the first byte of the
\* image's third bank (raw offset 0x4000 * 2)
C22_ReadOfBankTwo ==
    /\ BankSwitched /\ ReadFrom(16384, 16384)
    /\ cart.rom_bank_selection = 2
    /\ Last.value = 18
    /\ Get(cart.rom, 32768) = 18

\* the byte of the selected RAM bank that addr maps to, the sentinel outside
\* the RAM
RamBankOffset(addr) == 8192 * cart.ram_bank_selection + (addr - 40960)
RamByte(addr) ==
    IF RamBankOffset(addr) < cart.ram_size THEN Get(cart.ram, RamBankOffset(addr)) ELSE 255

\* C23: in the bank-switched variant cartridge RAM is disabled at first and
\* after that enabled iff the most recent write to 0x0000-0x1FFF had low
\* nibble 0xA; while disabled a read of 0xA000-0xBFFF returns 0xFF and a
\* write there leaves the RAM unchanged; a write made while enabled is stored
\* and read back, and the writes that switch the RAM off and on leave its
\* contents alone.
C23_RamEnableLatch ==
    BankSwitched =>
        /\ nsteps = 0 => ~cart.ram_enabled
        /\ WroteTo(0, 8191) =>
              /\ cart.ram_enabled = (Last.value % 16 = 10)
              /\ cart.ram = pre.cart.ram
        /\ (nsteps > 0 /\ ~WroteTo(0, 8191)) => cart.ram_enabled = pre.cart.ram_enabled
        /\ ReadFrom(40960, 49151) =>
              Last.value = (IF cart.ram_enabled THEN RamByte(Last.addr) ELSE 255)
        /\ WroteTo(40960, 49151) =>
              IF ~cart.ram_enabled THEN cart.ram = pre.cart.ram
              ELSE RamBankOffset(Last.addr) < cart.ram_size => RamByte(Last.addr) = Last.value

\* the RAM was switched on, written, switched off and switched on again, and
\* holds the byte written
C23_KeptAcrossDisable ==
    /\ BankSwitched /\ WroteTo(0, 8191) /\ nsteps = 4
    /\ ~pre.cart.ram_enabled /\ cart.ram_enabled
    /\ Get(cart.ram, 0) = 85

\* C24: in the no-banking variant a read of addr in 0xA000..=0xBFFF returns
\* the RAM byte at offset addr - 0xA000 when that offset is inside the
\* declared RAM size and 0xFF when it is not (RAM size 0 included); a write
\* beyond the RAM size is ignored; neither access aborts the emulation.
C24_PlainRam ==
    (~BankSwitched /\ hist # <<>> /\ Last.addr >= 40960 /\ Last.addr <= 49151) =>
        /\ result = Ok
        /\ ReadFrom(40960, 49151) =>
              Last.value = (IF Last.addr - 40960 < cart.ram_size
                            THEN Get(cart.ram, Last.addr - 40960) ELSE 255)
        /\ (WroteTo(40960, 49151) /\ Last.addr - 40960 >= cart.ram_size) =>
              cart.ram = pre.cart.ram

\* what the code does: the RAM is indexed with the address itself, and an
\* address that is no index of the RAM ends the access with a panic
PlainRamIndexedByAddress ==
    (~BankSwitched /\ hist # <<>> /\ Last.addr >= 40960 /\ Last.addr <= 49151) =>
        IF Last.addr >= pre.cart.ram_size THEN result = Panic /\ cart = pre.cart
        ELSE /\ result = Ok
             /\ ReadFrom(40960, 49151) => Last.value = Get(cart.ram, Last.addr)
             /\ WroteTo(40960, 49151) => Get(cart.ram, Last.addr) = Last.value

\* a read of 0xA000 from a cartridge without RAM ended in a panic
PlainRamReadPanicked ==
    /\ ~BankSwitched /\ cart.ram_size = 0
    /\ ReadFrom(40960, 40960) /\ result = Panic

\* the run began in the state GameBoy::new builds, with the ROM bytes NOP at
\* 0x0100 and JP 0x0150 at 0x0101
NopJpFromReset ==
    /\ start.r = Registers_new /\ start.r.pc = 256 /\ start.r.sp = 65534
    /\ start.interrupt_state = "Enabled" /\ ~start.halted
    /\ start.ih = InterruptHandler_new
    /\ start.timer = Timer_new
    /\ cart = Cart(<<0, 195, 80, 1>>)

\* C26: from the initial state (PC = 0x0100, SP = 0xFFFE, no interrupt
\* requested or enabled) with NOP at 0x0100 and JP 0x0150 at 0x0101, the
\* first CPU step leaves PC = 0x0101 and the second PC = 0x0150; no register
\* other than PC changes and no interrupt is dispatched.
C26_NopThenJp ==
    NopJpFromReset =>
        /\ nsteps >= 1 => hist[1].kind = "exec" /\ hist[1].op = 0 /\ hist[1].ret = "Ok"
        /\ nsteps = 1 => r = [start.r EXCEPT !.pc = 257]
        /\ nsteps >= 2 => hist[2].kind = "exec" /\ hist[2].op = 195 /\ hist[2].ret = "Ok"
        /\ nsteps = 2 => r = [start.r EXCEPT !.pc = 336]

\* the second step of that run has jumped to 0x0150
C26_Jumped ==
    NopJpFromReset /\ nsteps = 2 /\ pre.r.pc = 257 /\ r.pc = 336 /\ cycles = 20

\* the last step executed LD (nn),SP with nn = 0xFFFF
StoredSPAtTopOfMemory ==
    /\ Executed({8})
    /\ Get(cart.rom, wrapping_add16(pre.r.pc, 1)) = 255
    /\ Get(cart.rom, wrapping_add16(pre.r.pc, 2)) = 255

\* C28: no instruction aborts on arithmetic overflow; a 16-bit store through
\* an address operand, LD (nn),SP with nn = 0xFFFF, writes its low byte to
\* 0xFFFF and its high byte to 0x0000 and returns.
C28_StoreWrapsAtTopOfMemory ==
    StoredSPAtTopOfMemory =>
        /\ result = Ok
        /\ Len(bus) = 5
        /\ bus[4].op = "write" /\ bus[4].addr = 65535 /\ bus[4].value = pre.r.sp % 256
        /\ bus[5].op = "write" /\ bus[5].addr = 0 /\ bus[5].value = pre.r.sp \div 256

\* what the code does: that is the step of a build without overflow checks;
\* in a build with them the step panics after the write of the low byte
StoreAtTopOfMemoryByBuild ==
    StoredSPAtTopOfMemory =>
        /\ Len(bus) >= 4
        /\ bus[4].op = "write" /\ bus[4].addr = 65535 /\ bus[4].value = pre.r.sp % 256
        /\ IF overflow_checks THEN result = Panic /\ Len(bus) = 4
           ELSE /\ result = Ok /\ Len(bus) = 5
                /\ bus[5].op = "write" /\ bus[5].addr = 0 /\ bus[5].value = pre.r.sp \div 256

\* the store panicked in a build with overflow checks
StorePanicked == StoredSPAtTopOfMemory /\ overflow_checks /\ result = Panic

\* the machine as it was before the last access
Before ==
    [Machine EXCEPT !.ih = pre.ih, !.cycles = pre.cycles, !.timer = pre.timer,
                    !.lcd = pre.lcd, !.mem = pre.mem, !.cart = pre.cart]

\* the byte a read of addr returns now, and the byte addr held before the
\* last access
Holds(addr) == read_addr_map(Machine, addr).v
Held(addr) == read_addr_map(Before, addr).v

\* the last access wrote v to the DMA register 0xFF46; the source v << 8 is
\* the cartridge ROM, system RAM or its echo
DmaStarted ==
    /\ WroteTo(65350, 65350)
    /\ \/ Last.value <= 127
       \/ Last.value >= 192 /\ Last.value <= 253

\* C25: a write of v to 0xFF46 copies 160 bytes, from (v << 8) + i for
\* i in 0..=0x9F, into OAM: afterwards a read of 0xFE00 + i returns the byte
\* that v * 0x100 + i held.
C25_DmaCopiesPage ==
    DmaStarted =>
        /\ result = Ok
        /\ \A i \in 0 .. 159 : Holds(65024 + i) = Held(Last.value * 256 + i)

\* what the code does: the 160 bytes come from v * 100 + i, decimal
DmaCopiesFromDecimal ==
    DmaStarted =>
        /\ result = Ok
        /\ \A i \in 0 .. 159 : Holds(65024 + i) = Held(Last.value * 100 + i)

\* a transfer from 0xC000, which held 0xC1, left OAM with the ROM byte of
\* 0x4B00
DmaFromWrongPage ==
    /\ DmaStarted /\ Last.value = 192
    /\ Held(49152) = 193
    /\ Holds(65024) = 255

\* C29: echo RAM mirrors system RAM in both directions: for k in 0..=0x1DFF
\* a write to 0xE000 + k is read back at 0xC000 + k and a write to
\* 0xC000 + k at 0xE000 + k; a read of 0xE000 + k returns the byte of
\* 0xC000 + k; no other byte of system RAM changes.
C29_EchoMirrorsSystemRam ==
    LET k == IF Last.addr >= 57344 THEN Last.addr - 57344 ELSE Last.addr - 49152
    IN  /\ WroteTo(57344, 65023) \/ WroteTo(49152, 56831) =>
            /\ result = Ok
            /\ Holds(49152 + k) = Last.value
            /\ Holds(57344 + k) = Last.value
            /\ mem.system_ram = Put(pre.mem.system_ram, k, Last.value)
        /\ ReadFrom(57344, 65023) =>
            /\ result = Ok
            /\ Last.value = Held(49152 + k)
            /\ mem = pre.mem
        /\ ReadFrom(49152, 56831) =>
            /\ result = Ok
            /\ Last.value = Held(57344 + k)
            /\ mem = pre.mem

\* a byte written through the echo was read back from system RAM, or one
\* written to system RAM was read back through the echo
C29_ReadBackThroughMirror ==
    \/ ReadFrom(49152, 49152) /\ Last.value = 225
    \/ ReadFrom(65023, 65023) /\ Last.value = 221

\* the loop of run_to_vblank is still running: it was entered, no step
\* failed and the display does not report vblank
LoopRunning == Entered /\ result = Ok /\ ~vblank_reached(lcd)

\* C27: run-to-vblank is a bounded unit of work: the loop that steps the CPU
\* until the display reports vertical blank ends within one frame of
\* 154 scanlines x 114 machine cycles, whatever the program does.
C27_VBlankWithinOneFrame ==
    LoopRunning => cycles - start.cycles < FrameCycles

\* what the code does: the loop ends within a frame when the CPU is halted,
\* spins, or has the display off; entered with the display off, or in
\* vblank, it ends before its first step
EndsUnlessLineCounterReset ==
    /\ (LoopRunning /\ cart # Cart(<<62, 128, 224, 64, 224, 68, 24, 252>>)) =>
           cycles - start.cycles < FrameCycles
    /\ (Entered /\ vblank_reached(start.lcd)) => cycles = start.cycles

\* the loop of writes to 0xFF44 has kept the display on line 0 or 1 for more
\* than a frame
LoopStarved ==
    /\ LoopRunning
    /\ cycles - start.cycles > FrameCycles
    /\ control_enable(lcd) /\ lcd.lcd_y <= 1

\* the loop ended in vblank with the CPU halted all the way
HaltedLoopEnded ==
    /\ Entered /\ halted /\ start.halted /\ ~vblank_reached(start.lcd)
    /\ vblank_reached(lcd) /\ lcd.lcd_y = SCREEN_HEIGHT

\* the groups selected by the last write of the select bits, which was of
\* `value`, and the positions 0..3 of the controls held in each group
SelectWritten == hist # <<>> /\ Last.kind = "write_select_bits" /\ Last.at = nsteps - 1
HeldButtons ==
    {i \in 0 .. 3 : <<ControlsDown.a, ControlsDown.b, ControlsDown.select, ControlsDown.start>>[i + 1]}
HeldDirections ==
    {i \in 0 .. 3 : <<ControlsDown.right, ControlsDown.left, ControlsDown.up, ControlsDown.down>>[i + 1]}
ButtonsSelected == Bit(as_u8(joypad), 5) = 0
DirectionsSelected == Bit(as_u8(joypad), 4) = 0

TimerAfterCycle == Timer_step(pre.timer, pre.ih).timer

\* C31: a write of any value v to the divider register 0xFF04 leaves the
\* divider equal to 0 (v is not stored) and changes nothing else of the
\* timer: the counter register, the modulo register, the control register
\* and the internal sub-cycle counter are what they were when the write was
\* applied (on the bus: what the access's own machine cycle left, and what
\* they were before the access when the timer is disabled).
C31_DividerWriteResets ==
    /\ \A v \in {0, 1, 9, 128, 255} :
           Timer_write_register(timer, 65284, v) = [timer EXCEPT !.divider = 0]
    /\ WroteTo(65284, 65284) =>
           /\ timer.divider = 0
           /\ timer = [TimerAfterCycle EXCEPT !.divider = 0]
           /\ timer.modulo = pre.timer.modulo
           /\ get_control(timer) = get_control(pre.timer)
           /\ ~pre.timer.enabled =>
                  timer.tima = pre.timer.tima /\ timer.counter = pre.timer.counter

\* 9 was written to 0xFF04 when the divider was not 0, with the timer
\* enabled, and the divider reads 0
C31_DividerWasReset ==
    /\ WroteTo(65284, 65284) /\ Last.value = 9
    /\ pre.timer.divider > 0 /\ pre.timer.enabled
    /\ Timer_read_register(timer, 65284) = 0

\* the interrupt state once the last step had begun: a step that begins in
\* Enabling turns it into Enabled before anything else
StateAtStart ==
    IF pre.interrupt_state = "Enabling" THEN "Enabled" ELSE pre.interrupt_state

\* C32: the interrupt-enable state machine has only these transitions:
\* -> Disabled on servicing an interrupt or on DI; Disabled -> Enabling on
\* EI, which has no effect otherwise; -> Enabling on RETI; Enabling ->
\* Enabled at the start of the next step; there is no direct Disabled ->
\* Enabled transition and nothing else changes the state.
C32_InterruptStateMachine ==
    Stepped =>
        /\ interrupt_state =
               CASE Last.kind = "interrupt" /\ result = Ok -> "Disabled"
                 [] Executed({243}) -> "Disabled"
                 [] Executed({217}) -> "Enabling"
                 [] Executed({251}) ->
                        IF StateAtStart = "Disabled" THEN "Enabling" ELSE StateAtStart
                 [] OTHER -> StateAtStart
        /\ Last.kind = "interrupt" => pre.interrupt_state = "Enabled"
        /\ ~(pre.interrupt_state = "Disabled" /\ interrupt_state = "Enabled")

\* RETI executed with the state Disabled and left it Enabling, and the step
\* after it made it Enabled
C32_EnabledAfterReti ==
    /\ nsteps = 2 /\ hist[1].kind = "exec" /\ hist[1].op = 217 /\ ~hist[1].cb
    /\ hist[1].before = "Disabled" /\ hist[1].state = "Enabling"
    /\ pre.interrupt_state = "Enabling" /\ interrupt_state = "Enabled"

\* the mode of a scanline position: line lcd_y with `countdown` cycles left
ModeOfPosition(lcd_y, countdown) ==
    IF lcd_y >= 144 THEN ModeVBlank
    ELSE IF countdown >= 376 THEN OAMSearch
    ELSE IF countdown >= 204 THEN Transfer
    ELSE HBlank

\* the enabled display is at the start of a scanline
LineStart == control_enable(lcd) /\ lcd.scanline_cycle_count = 456

\* the 114 steps that follow
WholeLine == LCD_steps(lcd, ih, 114)

\* C33: while the display is enabled every scanline lasts exactly 114
\* display steps: the countdown starts at 456, goes down by 4 per step and
\* is a positive multiple of 4 between steps; the steps of a visible line
\* set the mode OAMSearch while the countdown is at least 376, then
\* Transfer while it is at least 204, then HBlank, in that order; the steps
\* of a line with lcd_y >= 144 set VBlank.
C33_ScanlineModes ==
    /\ control_enable(lcd) =>
           \E k \in 1 .. 114 : lcd.scanline_cycle_count = 4 * k
    /\ (MachineCycle /\ control_enable(pre.lcd)) =>
           /\ lcd.scanline_cycle_count =
                  IF pre.lcd.scanline_cycle_count = 4 THEN 456
                  ELSE pre.lcd.scanline_cycle_count - 4
           /\ pre.lcd.scanline_cycle_count # 4 => lcd.lcd_y = pre.lcd.lcd_y
           /\ mode_flag(lcd) = ModeOfPosition(pre.lcd.lcd_y, pre.lcd.scanline_cycle_count)
    /\ LineStart =>
           LET line == WholeLine IN
           /\ \A i \in 1 .. 113 :
                  /\ line[i].lcd.lcd_y = lcd.lcd_y
                  /\ line[i].lcd.scanline_cycle_count = 456 - 4 * i
           /\ line[114].lcd.scanline_cycle_count = 456
           /\ line[114].lcd.lcd_y # lcd.lcd_y
           /\ \A i \in 1 .. 114 :
                  mode_flag(line[i].lcd) =
                      IF lcd.lcd_y >= 144 THEN ModeVBlank
                      ELSE IF i <= 21 THEN OAMSearch
                      ELSE IF i <= 64 THEN Transfer
                      ELSE HBlank

\* a machine cycle took the display to the start of the second line,
\* whose 114 steps begin with OAMSearch and end with HBlank
C33_LineStarted ==
    /\ MachineCycle /\ LineStart
    /\ pre.lcd.scanline_cycle_count = 4 /\ pre.lcd.lcd_y = 0 /\ lcd.lcd_y = 1
    /\ mode_flag(WholeLine[1].lcd) = OAMSearch
    /\ mode_flag(WholeLine[114].lcd) = HBlank

\* a machine cycle that the display began enabled, with the coincidence
\* interrupt disabled and no request pending
ModeCycle ==
    /\ MachineCycle
    /\ control_enable(pre.lcd)
    /\ Bit(pre.lcd.status, 6) = 0
    /\ pre.ih.flag = 0

\* the cycle changed the mode and the status register enables the interrupt
\* of the mode entered: bit 3 for HBlank, bit 4 for VBlank, bit 5 for
\* OAMSearch, none for Transfer
EnabledModeEntered ==
    /\ mode_flag(lcd) # mode_flag(pre.lcd)
    /\ CASE mode_flag(lcd) = HBlank -> Bit(pre.lcd.status, 3) = 1
         [] mode_flag(lcd) = ModeVBlank -> Bit(pre.lcd.status, 4) = 1
         [] mode_flag(lcd) = OAMSearch -> Bit(pre.lcd.status, 5) = 1
         [] mode_flag(lcd) = Transfer -> FALSE

\* C34: on each change of the display mode the LCD-status bit (bit 1) of the
\* requested flags is raised iff the status register's enable bit for the
\* mode entered is set; entering pixel transfer never raises it, and a step
\* in which the mode does not change raises no mode interrupt.
C34_ModeInterrupts ==
    ModeCycle => (Bit(ih.flag, 1) = 1 <=> EnabledModeEntered)

\* what the code does: the request is made in the cycles the claim names,
\* and sets bit 0
ModeInterruptSetsBitZero ==
    ModeCycle => ih.flag = IF EnabledModeEntered THEN 1 ELSE 0

\* HBlank was entered with its interrupt enabled, and bit 1 is not set
HBlankEntryWithoutRequest ==
    /\ ModeCycle /\ EnabledModeEntered
    /\ mode_flag(pre.lcd) = Transfer /\ mode_flag(lcd) = HBlank
    /\ Bit(ih.flag, 1) = 0

\* C35: in the bank-switched variant the mode flag equals bit 0 of the most
\* recent write to 0x6000-0x7FFF (initially 0); a write of v to
\* 0x4000-0x5FFF with the flag 0 sets bits 5-6 of the ROM bank selector to
\* v & 3 and leaves its low five bits and the RAM bank unchanged; with the
\* flag 1 it sets the RAM bank to v & 3 (always in 0..=3) and leaves the ROM
\* bank selector unchanged.
C35_ModeFlagSelectsTarget ==
    BankSwitched =>
        /\ nsteps = 0 => ~cart.ram_select_mode
        /\ cart.ram_bank_selection \in 0 .. 3
        /\ WroteTo(24576, 32767) => (cart.ram_select_mode <=> Last.value % 2 = 1)
        /\ (nsteps > 0 /\ ~WroteTo(24576, 32767)) =>
               cart.ram_select_mode = pre.cart.ram_select_mode
        /\ (WroteTo(16384, 24575) /\ ~pre.cart.ram_select_mode) =>
               /\ cart.rom_bank_selection \div 32 = Last.value % 4
               /\ cart.rom_bank_selection % 32 = pre.cart.rom_bank_selection % 32
               /\ cart.ram_bank_selection = pre.cart.ram_bank_selection
        /\ (WroteTo(16384, 24575) /\ pre.cart.ram_select_mode) =>
               /\ cart.ram_bank_selection = Last.value % 4
               /\ cart.rom_bank_selection = pre.cart.rom_bank_selection

\* with the flag 1 a write of 0xFE to 0x5FFF selected RAM bank 2 and left
\* ROM bank 5 selected
C35_RamBankSelected ==
    /\ BankSwitched /\ WroteTo(24575, 24575) /\ Last.value = 254
    /\ pre.cart.ram_select_mode /\ pre.cart.ram_bank_selection = 0
    /\ cart.ram_bank_selection = 2
    /\ cart.rom_bank_selection = 5

\* the spin cycles and the machine cycles of the last step
Spins == Cardinality({i \in 1 .. Len(bus) : bus[i].op = "spin"})
MachineCycles == (cycles - pre.cycles) \div 4

\* the conditional instructions, the condition of each (bits 3-4 of the
\* opcode: NZ, Z, NC, C) and whether the last step found it true
ConditionalOps == {196, 204, 212, 220, 192, 200, 208, 216, 194, 202, 210, 218, 32, 40, 48, 56}
Taken ==
    CASE (Last.op \div 8) % 4 = 0 -> Bit(pre.r.f, 7) = 0
      [] (Last.op \div 8) % 4 = 1 -> Bit(pre.r.f, 7) = 1
      [] (Last.op \div 8) % 4 = 2 -> Bit(pre.r.f, 4) = 0
      [] (Last.op \div 8) % 4 = 3 -> Bit(pre.r.f, 4) = 1

\* the machine cycles of a conditional instruction whose condition is false:
\* CALL cc and JP cc fetch and read two operand bytes, JR cc fetches and
\* reads one, RET cc fetches and spins
CyclesNotTaken == IF Last.op >= 192 /\ Last.op % 8 # 0 THEN 3 ELSE 2

\* the last step executed CALL, RST, RET, RETI, JR, ADD SP,n or LD HL,SP+n,
\* executed a conditional instruction whose condition was true, or
\* dispatched an interrupt
BranchedOrOffset ==
    \/ Executed({205, 207, 255, 201, 217, 24, 232, 248})
    \/ Executed(ConditionalOps) /\ Taken
    \/ Stepped /\ Last.kind = "interrupt" /\ result = Ok

\* C36: every call (CALL, CALL cc taken, RST, interrupt dispatch), every
\* return (RET, RETI, RET cc), every taken conditional or relative jump and
\* both stack-pointer-offset operations perform at least one spin cycle; a
\* conditional branch, call or return that is taken costs strictly more
\* machine cycles than the same instruction not taken.
C36_BranchesSpin ==
    /\ BranchedOrOffset => Spins >= 1
    /\ Executed({192, 200, 208, 216}) => Spins >= 1
    /\ Executed(ConditionalOps) =>
           IF Taken THEN MachineCycles > CyclesNotTaken
           ELSE MachineCycles = CyclesNotTaken

\* what the code does: that, except that RET and RETI make their fetch and
\* two stack reads and no spin
BranchesSpinButReturn ==
    /\ (BranchedOrOffset /\ ~Executed({201, 217})) => Spins >= 1
    /\ Executed({192, 200, 208, 216}) => Spins >= 1
    /\ Executed(ConditionalOps) =>
           IF Taken THEN MachineCycles > CyclesNotTaken
           ELSE MachineCycles = CyclesNotTaken
    /\ Executed({201, 217}) =>
           /\ Spins = 0
           /\ Len(bus) = 3
           /\ \A i \in 1 .. 3 : bus[i].op = "read"

\* RET has returned in three machine cycles
ReturnedWithoutSpin ==
    Executed({201}) /\ MachineCycles = 3 /\ Spins = 0 /\ r.sp = wrapping_add16(pre.r.sp, 2)

\* the CPU is halted with the timer enabled and the Timer interrupt (bit 2)
\* set in the interrupt-enable register
HaltedOnTimer == halted /\ timer.enabled /\ Bit(ih.enable, 2) = 1

HaltEndsOnBitOne ==
    /\ Bit(ih.flag, 2) = 0
    /\ (nsteps >= 8 /\ halted) => Bit(ih.flag, 1) = 1
    /\ (start.ih.enable \in {4, 20}) => halted
    /\ (start.ih.enable = 6 /\ nsteps > 8) => ~halted

\* whatever the number of steps: a halted CPU with neither bit 0 nor bit 1
\* enabled and no bit above them requested is in the same condition after a
\* step, since the Timer and the display request through bits 0 and 1 alone
HaltedForGood ==
    halted /\ BitAnd(ih.enable, 3) = 0 /\ BitAnd(ih.flag, 252) = 0 /\ result = Ok

OnceHaltedForGoodAlways == [][HaltedForGood => HaltedForGood']_vars

\* the counter register has overflowed, only the Timer interrupt is enabled
\* and the CPU has spun through every step still halted
StillHaltedAfterOverflow ==
    /\ nsteps = MaxHaltSteps
    /\ halted
    /\ start.ih.enable = 4
    /\ ih.flag = 2
    /\ timer.tima < start.timer.tima
    /\ cycles = 4 * MaxHaltSteps

\* the last step began in state Enabled
BeganEnabled == Stepped /\ pre.interrupt_state = "Enabled"

\* C38: for every pair of requested-flags and enabled-flags bytes, a step
\* with interrupts enabled either services one of the five defined
\* interrupts or services none; in particular when the only bits set in
\* (requested AND enabled) are among bits 5-7 the step does not abort.
C38_DispatchNeverFails ==
    /\ BeganEnabled =>
           \/ result.tag = "Ok" /\ \E b \in 0..4 : Serviced(b)
           \/ Last.kind # "interrupt"
    /\ (BeganEnabled /\ PendingBefore # 0 /\ PendingBefore % 32 = 0) => result.tag # "panic"

\* what the code does: with an enabled interrupt requested the step panics
\* when the lowest such bit is one of bits 5-7 and services the interrupt
\* otherwise
DispatchPanicsOnUndefinedBit ==
    (BeganEnabled /\ PendingBefore # 0) =>
        IF PendingBefore % 32 = 0
        THEN result.tag = "panic"
        ELSE result.tag = "Ok" /\ \E b \in 0..4 : Serviced(b)

\* bit 5 alone was requested and enabled, and the step panicked with the
\* registers and the request as they were
DispatchPanicked ==
    /\ BeganEnabled
    /\ PendingBefore = 32
    /\ result.tag = "panic"
    /\ r = pre.r
    /\ ih = pre.ih

\* the last action was one machine cycle that stepped the enabled timer
EnabledTimerStepped == MachineCycle /\ pre.timer.enabled

\* C39: after every Timer step taken while the timer is enabled, the
\* internal sub-cycle counter is strictly less than the currently selected
\* clock ratio, also after the control register has been rewritten to a
\* faster rate or the timer re-enabled; consequently the counter register is
\* not incremented by two consecutive steps (the smallest ratio / 4 is 4).
C39_SubCycleBelowRatio ==
    /\ [](EnabledTimerStepped => timer.counter < ratio(timer.clock))
    /\ [][~(Incremented /\ Incremented')]_vars

\* what the code does: the sub-cycle counter is below the ratio as long as
\* the rate selected is not faster than the one the run began with; one
\* step subtracts the ratio at most once
SubCycleBelowRatioUnlessFaster ==
    /\ (EnabledTimerStepped /\ ratio(timer.clock) >= ratio(start.timer.clock)) =>
           timer.counter < ratio(timer.clock)
    /\ EnabledTimerStepped =>
           timer.counter \in {pre.timer.counter + 4, pre.timer.counter + 4 - ratio(timer.clock)}

\* the control register was rewritten from ratio 256 to ratio 16 with the
\* sub-cycle counter above 16: the next step incremented the counter
\* register and left the sub-cycle counter at or above the ratio
SubCycleAboveRatio ==
    /\ Incremented
    /\ start.timer.clock = 3 /\ timer.clock = 1
    /\ hist # <<>> /\ Last.addr = 65287 /\ Last.value = 5
    /\ timer.counter >= ratio(timer.clock)

\* the last step returned the unrecognized-opcode error
FailedUnrecognized == Stepped /\ result.tag = "Err" /\ result = Err_unrecognized(Last.op)

\* C40: a step that fails with an unrecognized-opcode error leaves the
\* observable machine state as it was before the step: PC still addresses
\* the offending opcode, and registers, memory, the cycle counter, the
\* Timer, the Display Controller and the interrupt flags are unchanged.
C40_FailedStepChangesNothing ==
    FailedUnrecognized =>
        /\ r.pc = Last.at
        /\ r = pre.r
        /\ mem = pre.mem /\ cart = pre.cart
        /\ cycles = pre.cycles
        /\ timer = pre.timer
        /\ lcd = pre.lcd
        /\ ih = pre.ih

\* what the code does: the fetch of the offending opcode is a bus read, a
\* machine cycle in which the Timer and the display step, and PC is advanced
\* past the opcode before the match on it; the other registers, memory and
\* the interrupt state are as before the step
FailedStepHasFetched ==
    FailedUnrecognized =>
        /\ r = [pre.r EXCEPT !.pc = wrapping_add16(Last.at, 1)]
        /\ \A i \in 1 .. Len(bus) : bus[i].op = "read"
        /\ cycles = pre.cycles + 4 * Len(bus)
        /\ timer_steps = pre.timer_steps + Len(bus)
        /\ lcd_steps = pre.lcd_steps + Len(bus)
        /\ Len(bus) = 1 =>
               /\ timer = Timer_step(pre.timer, pre.ih).timer
               /\ lcd = LCD_step(pre.lcd, Timer_step(pre.timer, pre.ih).ih).lcd
        /\ mem = pre.mem /\ cart = pre.cart
        /\ interrupt_state = StateAtStart
        /\ halted = pre.halted

\* 0xD3 at 0x0100 failed: PC is 0x0101, four clock cycles have passed, and
\* its fetch has overflowed the counter register and requested an interrupt
FailedStepOverflowedTimer ==
    /\ FailedUnrecognized /\ Last.op = 211 /\ Last.at = 256
    /\ r.pc = 257
    /\ cycles = pre.cycles + 4
    /\ pre.timer.tima = 255 /\ timer.tima = pre.timer.modulo
    /\ ih.flag # pre.ih.flag

====
